---- MODULE Spec2Model ----
(***************************************************************************)
(* Roadmap progression engine and canvas layout of eyla.                   *)
(*                                                                         *)
(* The committed model is the React state `phases` (Phase[]).  The focus   *)
(* machine (setFocusByLinearIndex, completeCurrent, addStepBefore,         *)
(* addStepAfter, removeCurrent) and the canvas (flatten with default       *)
(* layout, canvasBounds, handleDragEnd) both live in                       *)
(* src/components/Roadmap.tsx.  Source indices are 0-based and are kept    *)
(* 0-based in every FlatRef; TLA+ sequences are 1-based, so a sequence is  *)
(* indexed at (index + 1).                                                 *)
(***************************************************************************)
EXTENDS Integers, Sequences, FiniteSets, TLC

VARIABLES
    phases,   \* Phase[]: <<[id, name, steps: <<[id, text, completed, x, y]>>]>>
    nextId,   \* the next value uid() returns (uid() never repeats a value)
    drags,    \* number of drag gestures performed so far
    zoom,     \* the canvas zoom, in hundredths (100 is the scale 1)
    pan,      \* the canvas pan <<x, y>>
    thoughts, \* Thought[]: <<[id, stepId, scheduledAt, reminderDismissed]>>,
              \* all but the id being optional
    stored,     \* localStorage: the strings under the keys the page reads
                \* when it loads, and writes whenever projects or thoughts
                \* are set
    now,        \* Date.now(), in units of 30 s
    notified,   \* notifiedRef: the ids of the thoughts notified so far
    shown,      \* the notifications shown so far, oldest first: <<[id, at]>>
    permission, \* Notification.permission
    isEditing,  \* whether the text input of the current step is shown
    transform,  \* the drag in progress: Null, or the step being dragged
                \* and the pointer's offset so far, [id, delta]
    lastOp    \* the handler that ran last, its input, and whether the
              \* completed flags were a frontier when it started

vars == <<phases, nextId, drags, zoom, pan, thoughts, stored, isEditing,
          transform, now, notified, shown, permission, lastOp>>

----------------------------------------------------------------------------
(* Bounds of the exploration *)

MaxInserts == 1         \* steps inserted per behaviour
MaxDrags == 1           \* drag gestures per behaviour
MaxEdits == 1           \* steps whose text is edited per behaviour

MaxNow == 4             \* the clock runs from 0 to MaxNow (units of 30 s)

(* timestamps a thought is scheduled at *)
ScheduleTimes == {1, 3}

(* values the text input of a step is changed to *)
EditTexts == {"Draft"}

(* Pointer deltas of a drag gesture: small ones, and on each axis one larger
   than the canvas *)
DragDeltas == {<<-5000, 70>>, <<130, 5000>>}

(* deltaY of a wheel event: up, none, down *)
WheelDeltas == {-100, 0, 100}

----------------------------------------------------------------------------
(* JavaScript helpers *)

Min(a, b) == IF a < b THEN a ELSE b
Max(a, b) == IF a > b THEN a ELSE b

(* null: what Array.find returns on no match, and `current` when no step is current *)
Null == [null |-> TRUE]

(* an absent optional field (x?, y?) is <<>>, a present one is <<v>> *)
Undefined == <<>>

(* a ?? b *)
Coalesce(a, b) == IF a = Undefined THEN b ELSE a[1]

(* arr.slice(from, to): the elements at 0-based indices from..to-1; an index
   below zero counts from the end, and both are clamped to the array *)
slice(arr, from, to) ==
    LET f == IF from < 0 THEN Max(Len(arr) + from, 0) ELSE Min(from, Len(arr))
        t == IF to < 0 THEN Max(Len(arr) + to, 0) ELSE Min(to, Len(arr))
    IN  IF f >= t THEN <<>> ELSE SubSeq(arr, f + 1, t)

(* arr.filter(s => s.id !== id) *)
RECURSIVE filterOutId(_, _)
filterOutId(arr, id) ==
    IF arr = <<>> THEN <<>>
    ELSE IF Head(arr).id = id THEN filterOutId(Tail(arr), id)
         ELSE <<Head(arr)>> \o filterOutId(Tail(arr), id)

----------------------------------------------------------------------------
(* Flattener of the focus machine: phase order, then step order, k++ *)

RECURSIVE flattenFrom(_, _, _)
flattenFrom(phs, pi, k) ==
    IF pi > Len(phs) THEN <<>>
    ELSE LET p == phs[pi]
             rows == [si \in 1..Len(p.steps) |->
                        [phaseIndex  |-> pi - 1,
                         stepIndex   |-> si - 1,
                         phaseId     |-> p.id,
                         stepId      |-> p.steps[si].id,
                         phaseName   |-> p.name,
                         text        |-> p.steps[si].text,
                         completed   |-> p.steps[si].completed,
                         linearIndex |-> k + si - 1]]
         IN  rows \o flattenFrom(phs, pi + 1, k + Len(p.steps))

(* flatten counting the linear index from 1 instead of 0 *)
flattenOneBased(phs) == flattenFrom(phs, 1, 1)

flatten(phs) == flattenFrom(phs, 1, 0)

(* Flattener of the canvas: x and y with the default layout, defaultY += 150 *)
RECURSIVE flattenCanvasFrom(_, _, _)
flattenCanvasFrom(phs, pi, defaultY) ==
    IF pi > Len(phs) THEN <<>>
    ELSE LET p == phs[pi]
             rows == [si \in 1..Len(p.steps) |->
                        [phaseIndex |-> pi - 1,
                         stepIndex  |-> si - 1,
                         phaseId    |-> p.id,
                         stepId     |-> p.steps[si].id,
                         phaseName  |-> p.name,
                         text       |-> p.steps[si].text,
                         completed  |-> p.steps[si].completed,
                         x          |-> Coalesce(p.steps[si].x, 400),
                         y          |-> Coalesce(p.steps[si].y,
                                                 defaultY + 150 * (si - 1))]]
         IN  rows \o flattenCanvasFrom(phs, pi + 1,
                                       defaultY + 150 * Len(p.steps))

(* the canvas flattener with the default y counted from 100 in every phase *)
flattenCanvasPerPhase(phs) ==
    [k \in 1..Len(flattenCanvasFrom(phs, 1, 100)) |->
       LET r == flattenCanvasFrom(phs, 1, 100)[k]
       IN  [r EXCEPT !.y = Coalesce(
               phs[r.phaseIndex + 1].steps[r.stepIndex + 1].y,
               100 + 150 * r.stepIndex)]]

flattenCanvas(phs) == flattenCanvasFrom(phs, 1, 100)

(* flat.findIndex(x => !x.completed): 0-based, -1 when there is none *)
firstIncompleteIndex(flat) ==
    IF \E k \in 1..Len(flat) : ~flat[k].completed
    THEN (CHOOSE k \in 1..Len(flat) :
            /\ ~flat[k].completed
            /\ \A j \in 1..(k - 1) : flat[j].completed) - 1
    ELSE -1

(* allDone without the length test: true of an empty sequence *)
allDoneVacuous(flat) ==
    \A k \in 1..Len(flat) : flat[k].completed

allDone(flat) ==
    Len(flat) > 0 /\ \A k \in 1..Len(flat) : flat[k].completed

(* flat.find(r => r.phaseIndex === pi && r.stepIndex === si) *)
findRef(flat, pi, si) ==
    IF \E k \in 1..Len(flat) : flat[k].phaseIndex = pi /\ flat[k].stepIndex = si
    THEN flat[CHOOSE k \in 1..Len(flat) :
                /\ flat[k].phaseIndex = pi /\ flat[k].stepIndex = si
                /\ \A j \in 1..(k - 1) :
                      ~(flat[j].phaseIndex = pi /\ flat[j].stepIndex = si)]
    ELSE Null

(* flat.findIndex(r => r.stepId === stepId): 0-based, -1 when there is none *)
findIndexByStepId(flat, stepId) ==
    IF \E k \in 1..Len(flat) : flat[k].stepId = stepId
    THEN (CHOOSE k \in 1..Len(flat) :
            /\ flat[k].stepId = stepId
            /\ \A j \in 1..(k - 1) : flat[j].stepId # stepId) - 1
    ELSE -1

(* flat.find(s => s.stepId === stepId) *)
findByStepId(flat, stepId) ==
    LET idx == findIndexByStepId(flat, stepId)
    IN  IF idx = -1 THEN Null ELSE flat[idx + 1]

(* the memoised `current` of the focus view *)
current(flat) ==
    IF Len(flat) = 0 \/ firstIncompleteIndex(flat) = -1 THEN Null
    ELSE flat[firstIncompleteIndex(flat) + 1]

----------------------------------------------------------------------------
(* Focus machine: the state updaters passed to setPhases *)

(* setFocusByLinearIndex with the comparison off by one: the focused step
   itself is rewritten as completed *)
setFocusInclusive(prev, focusIndex) ==
    LET fl == flatten(prev)
        maxIdx == Len(fl) - 1
        i == Max(0, Min(focusIndex, maxIdx))
    IN  [pi \in 1..Len(prev) |->
           [prev[pi] EXCEPT !.steps =
              [si \in 1..Len(prev[pi].steps) |->
                 LET s == prev[pi].steps[si]
                     ref == findRef(fl, pi - 1, si - 1)
                 IN  IF ref = Null THEN s
                     ELSE [s EXCEPT !.completed = ref.linearIndex <= i]]]]

(* setFocusByLinearIndex as a toggle on the focused step instead of a
   rewrite of it *)
setFocusToggling(prev, focusIndex) ==
    LET fl == flatten(prev)
        maxIdx == Len(fl) - 1
        i == Max(0, Min(focusIndex, maxIdx))
    IN  [pi \in 1..Len(prev) |->
           [prev[pi] EXCEPT !.steps =
              [si \in 1..Len(prev[pi].steps) |->
                 LET s == prev[pi].steps[si]
                     ref == findRef(fl, pi - 1, si - 1)
                 IN  IF ref = Null THEN s
                     ELSE [s EXCEPT !.completed =
                             IF ref.linearIndex = i THEN ~s.completed
                             ELSE ref.linearIndex < i]]]]

(* setFocusByLinearIndex that marks the steps before the focus but reopens
   none *)
setFocusNeverReopening(prev, focusIndex) ==
    LET fl == flatten(prev)
        maxIdx == Len(fl) - 1
        i == Max(0, Min(focusIndex, maxIdx))
    IN  [pi \in 1..Len(prev) |->
           [prev[pi] EXCEPT !.steps =
              [si \in 1..Len(prev[pi].steps) |->
                 LET s == prev[pi].steps[si]
                     ref == findRef(fl, pi - 1, si - 1)
                 IN  IF ref = Null THEN s
                     ELSE [s EXCEPT !.completed =
                             s.completed \/ ref.linearIndex < i]]]]

(* setFocusByLinearIndex without the clamp of the index *)
setFocusUnclamped(prev, focusIndex) ==
    LET fl == flatten(prev)
        i == focusIndex
    IN  [pi \in 1..Len(prev) |->
           [prev[pi] EXCEPT !.steps =
              [si \in 1..Len(prev[pi].steps) |->
                 LET s == prev[pi].steps[si]
                     ref == findRef(fl, pi - 1, si - 1)
                 IN  IF ref = Null THEN s
                     ELSE [s EXCEPT !.completed = ref.linearIndex < i]]]]

(* setFocusByLinearIndex building each step anew from its id, text and flag
   instead of spreading it: the stored position is lost *)
setFocusRebuilding(prev, focusIndex) ==
    LET fl == flatten(prev)
        maxIdx == Len(fl) - 1
        i == Max(0, Min(focusIndex, maxIdx))
    IN  [pi \in 1..Len(prev) |->
           [prev[pi] EXCEPT !.steps =
              [si \in 1..Len(prev[pi].steps) |->
                 LET s == prev[pi].steps[si]
                     ref == findRef(fl, pi - 1, si - 1)
                 IN  IF ref = Null THEN s
                     ELSE [id |-> s.id, text |-> s.text,
                           completed |-> ref.linearIndex < i,
                           x |-> Undefined, y |-> Undefined]]]]

setFocusByLinearIndex(prev, focusIndex) ==
    LET fl == flatten(prev)
        maxIdx == Len(fl) - 1
        i == Max(0, Min(focusIndex, maxIdx))
    IN  [pi \in 1..Len(prev) |->
           [prev[pi] EXCEPT !.steps =
              [si \in 1..Len(prev[pi].steps) |->
                 LET s == prev[pi].steps[si]
                     ref == findRef(fl, pi - 1, si - 1)
                 IN  IF ref = Null THEN s
                     ELSE [s EXCEPT !.completed = ref.linearIndex < i]]]]

(* completeCurrentUpdater with the comparison off by one: the current step
   itself is not marked *)
completeCurrentExclusive(prev, c) ==
    LET flatPrev == flatten(prev)
        idx == findIndexByStepId(flatPrev, c.stepId)
        after == [pi \in 1..Len(prev) |->
                    [prev[pi] EXCEPT !.steps =
                       [si \in 1..Len(prev[pi].steps) |->
                          LET s == prev[pi].steps[si]
                              ref == findRef(flatPrev, pi - 1, si - 1)
                          IN  IF ref = Null THEN s
                              ELSE [s EXCEPT !.completed =
                                      IF ref.linearIndex < idx THEN TRUE
                                      ELSE s.completed]]]]
        newIdx == firstIncompleteIndex(flatten(after))
    IN  IF idx = -1 THEN prev
        ELSE IF newIdx = -1 THEN after
        ELSE setFocusByLinearIndex(after, newIdx)

(* completeCurrentUpdater toggling the flags up to the current step, as the
   toggleComplete of the first draft did, instead of setting them *)
completeCurrentToggling(prev, c) ==
    LET flatPrev == flatten(prev)
        idx == findIndexByStepId(flatPrev, c.stepId)
        after == [pi \in 1..Len(prev) |->
                    [prev[pi] EXCEPT !.steps =
                       [si \in 1..Len(prev[pi].steps) |->
                          LET s == prev[pi].steps[si]
                              ref == findRef(flatPrev, pi - 1, si - 1)
                          IN  IF ref = Null THEN s
                              ELSE [s EXCEPT !.completed =
                                      IF ref.linearIndex <= idx THEN ~s.completed
                                      ELSE s.completed]]]]
        newIdx == firstIncompleteIndex(flatten(after))
    IN  IF idx = -1 THEN prev
        ELSE IF newIdx = -1 THEN after
        ELSE setFocusByLinearIndex(after, newIdx)

(* completeCurrentUpdater returning `after` as it is, without the closing
   setFocusByLinearIndex *)
completeCurrentWithoutRefocus(prev, c) ==
    LET flatPrev == flatten(prev)
        idx == findIndexByStepId(flatPrev, c.stepId)
        after == [pi \in 1..Len(prev) |->
                    [prev[pi] EXCEPT !.steps =
                       [si \in 1..Len(prev[pi].steps) |->
                          LET s == prev[pi].steps[si]
                              ref == findRef(flatPrev, pi - 1, si - 1)
                          IN  IF ref = Null THEN s
                              ELSE [s EXCEPT !.completed =
                                      IF ref.linearIndex <= idx THEN TRUE
                                      ELSE s.completed]]]]
    IN  IF idx = -1 THEN prev ELSE after

(* the updater of completeCurrent: c is the current step the handler captured *)
(* completeCurrentUpdater completing whichever step is the current one of
   prev, instead of the step the handler captured *)
completeCurrentOfLatest(prev, c) ==
    LET flatPrev == flatten(prev)
        idx == firstIncompleteIndex(flatPrev)
        after == [pi \in 1..Len(prev) |->
                    [prev[pi] EXCEPT !.steps =
                       [si \in 1..Len(prev[pi].steps) |->
                          LET s == prev[pi].steps[si]
                              ref == findRef(flatPrev, pi - 1, si - 1)
                          IN  IF ref = Null THEN s
                              ELSE [s EXCEPT !.completed =
                                      IF ref.linearIndex <= idx THEN TRUE
                                      ELSE s.completed]]]]
        newIdx == firstIncompleteIndex(flatten(after))
    IN  IF idx = -1 THEN prev
        ELSE IF newIdx = -1 THEN after
        ELSE setFocusByLinearIndex(after, newIdx)

completeCurrentUpdater(prev, c) ==
    LET flatPrev == flatten(prev)
        idx == findIndexByStepId(flatPrev, c.stepId)
        after == [pi \in 1..Len(prev) |->
                    [prev[pi] EXCEPT !.steps =
                       [si \in 1..Len(prev[pi].steps) |->
                          LET s == prev[pi].steps[si]
                              ref == findRef(flatPrev, pi - 1, si - 1)
                          IN  IF ref = Null THEN s
                              ELSE [s EXCEPT !.completed =
                                      IF ref.linearIndex <= idx THEN TRUE
                                      ELSE s.completed]]]]
        newIdx == firstIncompleteIndex(flatten(after))
    IN  IF idx = -1 THEN prev
        ELSE IF newIdx = -1 THEN after
        ELSE setFocusByLinearIndex(after, newIdx)

(* the step literal of addStepBefore / addStepAfter: no x, no y *)
newStep(id) ==
    [id |-> id, text |-> "New step", completed |-> FALSE,
     x |-> Undefined, y |-> Undefined]

(* addStepBeforeUpdater splicing one place too early *)
addStepBeforeTooEarly(prev, c, id) ==
    [pi \in 1..Len(prev) |->
       IF pi - 1 # c.phaseIndex THEN prev[pi]
       ELSE LET i == c.stepIndex - 1
                st == prev[pi].steps
            IN  [prev[pi] EXCEPT !.steps =
                   slice(st, 0, i) \o <<newStep(id)>> \o slice(st, i, Len(st))]]

addStepBeforeUpdater(prev, c, id) ==
    [pi \in 1..Len(prev) |->
       IF pi - 1 # c.phaseIndex THEN prev[pi]
       ELSE LET i == c.stepIndex
                st == prev[pi].steps
            IN  [prev[pi] EXCEPT !.steps =
                   slice(st, 0, i) \o <<newStep(id)>> \o slice(st, i, Len(st))]]

(* addStepAfterUpdater appending to the end of the phase instead of splicing
   after the current step *)
addStepAfterAtEnd(prev, c, id) ==
    [pi \in 1..Len(prev) |->
       IF pi - 1 # c.phaseIndex THEN prev[pi]
       ELSE [prev[pi] EXCEPT !.steps = prev[pi].steps \o <<newStep(id)>>]]

addStepAfterUpdater(prev, c, id) ==
    [pi \in 1..Len(prev) |->
       IF pi - 1 # c.phaseIndex THEN prev[pi]
       ELSE LET i == c.stepIndex
                st == prev[pi].steps
            IN  [prev[pi] EXCEPT !.steps =
                   slice(st, 0, i + 1) \o <<newStep(id)>>
                     \o slice(st, i + 1, Len(st))]]

(* arr.filter(s => s.id === id): the filter of removeCurrent inverted *)
RECURSIVE filterOnlyId(_, _)
filterOnlyId(arr, id) ==
    IF arr = <<>> THEN <<>>
    ELSE IF Head(arr).id # id THEN filterOnlyId(Tail(arr), id)
         ELSE <<Head(arr)>> \o filterOnlyId(Tail(arr), id)

(* removeCurrentUpdater with the filter inverted *)
removeCurrentInverted(prev, c) ==
    LET updated == [pi \in 1..Len(prev) |->
                      IF pi - 1 # c.phaseIndex THEN prev[pi]
                      ELSE [prev[pi] EXCEPT !.steps =
                              filterOnlyId(prev[pi].steps, c.stepId)]]
        newFlat == flatten(updated)
        newFocusIdx == firstIncompleteIndex(newFlat)
    IN  IF Len(newFlat) = 0 THEN updated
        ELSE IF newFocusIdx = -1 THEN updated
        ELSE setFocusByLinearIndex(updated, newFocusIdx)

(* removeCurrentUpdater dropping a phase that is left without steps *)
removeCurrentDroppingPhase(prev, c) ==
    LET removed == [pi \in 1..Len(prev) |->
                      IF pi - 1 # c.phaseIndex THEN prev[pi]
                      ELSE [prev[pi] EXCEPT !.steps =
                              filterOutId(prev[pi].steps, c.stepId)]]
        updated == SelectSeq(removed, LAMBDA p : Len(p.steps) > 0)
        newFlat == flatten(updated)
        newFocusIdx == firstIncompleteIndex(newFlat)
    IN  IF Len(newFlat) = 0 THEN updated
        ELSE IF newFocusIdx = -1 THEN updated
        ELSE setFocusByLinearIndex(updated, newFocusIdx)

removeCurrentUpdater(prev, c) ==
    LET updated == [pi \in 1..Len(prev) |->
                      IF pi - 1 # c.phaseIndex THEN prev[pi]
                      ELSE [prev[pi] EXCEPT !.steps =
                              filterOutId(prev[pi].steps, c.stepId)]]
        newFlat == flatten(updated)
        newFocusIdx == firstIncompleteIndex(newFlat)
    IN  IF Len(newFlat) = 0 THEN updated
        ELSE IF newFocusIdx = -1 THEN updated
        ELSE setFocusByLinearIndex(updated, newFocusIdx)

(* the updater of setStepText *)
setStepTextUpdater(prev, stepId, text) ==
    [pi \in 1..Len(prev) |->
       [prev[pi] EXCEPT !.steps =
          [si \in 1..Len(prev[pi].steps) |->
             LET s == prev[pi].steps[si]
             IN  IF s.id = stepId THEN [s EXCEPT !.text = text] ELSE s]]]

(* the updater of moveStep writing the neighbour over the step instead of
   swapping the two *)
moveStepOverwriting(prev, activeId, index, direction) ==
    [pi \in 1..Len(prev) |->
       IF prev[pi].id # activeId THEN prev[pi]
       ELSE LET steps == prev[pi].steps
                target == IF direction = "up" THEN index - 1 ELSE index + 1
            IN  IF target < 0 \/ target >= Len(steps) THEN prev[pi]
                ELSE [prev[pi] EXCEPT !.steps =
                        [steps EXCEPT ![index + 1] = steps[target + 1]]]]

(* the updater of moveStep: the steps at index and target of the active
   phase swapped *)
moveStepUpdater(prev, activeId, index, direction) ==
    [pi \in 1..Len(prev) |->
       IF prev[pi].id # activeId THEN prev[pi]
       ELSE LET steps == prev[pi].steps
                target == IF direction = "up" THEN index - 1 ELSE index + 1
            IN  IF target < 0 \/ target >= Len(steps) THEN prev[pi]
                ELSE [prev[pi] EXCEPT !.steps =
                        [steps EXCEPT ![index + 1] = steps[target + 1],
                                      ![target + 1] = steps[index + 1]]]]

----------------------------------------------------------------------------
(* Canvas *)

RECURSIVE maxOf(_, _)
maxOf(flat, field) ==
    IF Len(flat) = 1 THEN flat[1][field]
    ELSE Max(flat[1][field], maxOf(Tail(flat), field))

canvasBounds(flat) ==
    IF Len(flat) = 0 THEN [width |-> 1200, height |-> 800]
    ELSE [width  |-> Max(1200, maxOf(flat, "x") + 400),
          height |-> Max(800, maxOf(flat, "y") + 200)]

(* handleDragEnd without the test for the dragged step's id: every step of
   its phase gets the new position *)
dragEndPhasesWholePhase(phs, stepId, delta) ==
    LET flat == flattenCanvasFrom(phs, 1, 100)
        hits == {k \in 1..Len(flat) : flat[k].stepId = stepId}
    IN  IF hits = {} THEN phs
        ELSE LET stepRef == flat[CHOOSE k \in hits : TRUE]
             IN  [pi \in 1..Len(phs) |->
                    IF pi - 1 # stepRef.phaseIndex THEN phs[pi]
                    ELSE [phs[pi] EXCEPT !.steps =
                            [si \in 1..Len(phs[pi].steps) |->
                               [phs[pi].steps[si] EXCEPT
                                   !.x = <<stepRef.x + delta[1]>>,
                                   !.y = <<stepRef.y + delta[2]>>]]]]

(* handleDragEnd: the new phases it passes to setPhases *)
dragEndPhases(phs, stepId, delta) ==
    LET flat == flattenCanvas(phs)
        stepRef == findByStepId(flat, stepId)
    IN  IF stepRef = Null THEN phs
        ELSE LET newX == stepRef.x + delta[1]
                 newY == stepRef.y + delta[2]
             IN  [pi \in 1..Len(phs) |->
                    IF pi - 1 # stepRef.phaseIndex THEN phs[pi]
                    ELSE [phs[pi] EXCEPT !.steps =
                            [si \in 1..Len(phs[pi].steps) |->
                               LET s == phs[pi].steps[si]
                               IN  IF s.id = stepId
                                   THEN [s EXCEPT !.x = <<newX>>, !.y = <<newY>>]
                                   ELSE s]]]

(* Zoom, in hundredths.  The code computes in doubles, whose sums differ from
   these by rounding only; the bounds it applies with Math.min and Math.max
   are exact. *)

(* the updater of handleZoomOut without the lower bound *)
zoomOutUnbounded(z) == z - 10

(* setZoom((z) => Math.min(z + 0.1, 2)) *)
zoomInUpdater(z) == Min(z + 10, 200)

(* setZoom((z) => Math.max(z - 0.1, 0.3)) *)
zoomOutUpdater(z) == Max(z - 10, 30)

(* const delta = e.deltaY > 0 ? -0.05 : 0.05;
   setZoom((z) => Math.max(0.3, Math.min(2, z + delta))) *)
wheelUpdater(z, deltaY) ==
    LET delta == IF deltaY > 0 THEN -5 ELSE 5
    IN  Max(30, Min(200, z + delta))

----------------------------------------------------------------------------
(* Initial roadmaps *)

(* a step of the default roadmap: no x, no y *)
templateStep(id, text, completed) ==
    [id |-> id, text |-> text, completed |-> completed,
     x |-> Undefined, y |-> Undefined]

(* generateDefaultRoadmap: three named phases of two steps each; uid() gave
   the steps the ids 1..6; done[k] is the completed flag of step k *)
generateDefaultRoadmap(done) ==
    <<[id |-> "p1", name |-> "Planning",
       steps |-> <<templateStep(1, "Define the problem", done[1]),
                   templateStep(2, "Clarify the core idea", done[2])>>],
      [id |-> "p2", name |-> "Design",
       steps |-> <<templateStep(3, "Sketch main user flow", done[3]),
                   templateStep(4, "Decide MVP scope", done[4])>>],
      [id |-> "p3", name |-> "Development",
       steps |-> <<templateStep(5, "Implement core logic", done[5]),
                   templateStep(6, "Test interactions", done[6])>>]>>

(* a stored roadmap: the default roadmap after steps 2, 5 and 6 were removed,
   which leaves the last phase empty *)
storedRoadmap ==
    <<[id |-> "p1", name |-> "Planning",
       steps |-> <<templateStep(1, "Define the problem", FALSE)>>],
      [id |-> "p2", name |-> "Design",
       steps |-> <<templateStep(3, "Sketch main user flow", FALSE),
                   templateStep(4, "Decide MVP scope", FALSE)>>],
      [id |-> "p3", name |-> "Development", steps |-> <<>>]>>

(* a stored roadmap: the default roadmap after steps 3 to 6 were removed,
   which leaves the last two phases empty *)
smallRoadmap ==
    <<[id |-> "p1", name |-> "Planning",
       steps |-> <<templateStep(1, "Define the problem", FALSE),
                   templateStep(2, "Clarify the core idea", FALSE)>>],
      [id |-> "p2", name |-> "Design", steps |-> <<>>],
      [id |-> "p3", name |-> "Development", steps |-> <<>>]>>

(* the thoughts as loaded from storage: one linked to the first step, one
   linked to no step *)
storedThoughts ==
    << [id |-> 1, stepId |-> <<1>>,
        scheduledAt |-> Undefined, reminderDismissed |-> Undefined],
       [id |-> 2, stepId |-> Undefined,
        scheduledAt |-> Undefined, reminderDismissed |-> Undefined] >>

----------------------------------------------------------------------------
(* Storage.  A stored string is Null when the key is absent, and otherwise is
   written by what it denotes: text that is no JSON, the JSON null, a JSON
   object that is no array, or a JSON array.  Objects are records (an absent
   optional field being Undefined) and arrays are sequences. *)

Malformed == [kind |-> "malformed"]
JsonNull == [kind |-> "null"]
JsonObject(v) == [kind |-> "object", value |-> v]
JsonArray(v) == [kind |-> "array", value |-> v]

(* a flat array of steps, stored where an array of phases is expected *)
flatSteps ==
    <<templateStep(1, "Define the problem", FALSE),
      templateStep(2, "Clarify the core idea", FALSE)>>

(* a stored roadmap with a position on its first step *)
placedRoadmap ==
    <<[id |-> "p1", name |-> "Planning",
       steps |-> <<[templateStep(1, "Define the problem", TRUE)
                       EXCEPT !.x = <<530>>, !.y = <<170>>],
                   templateStep(2, "Clarify the core idea", FALSE)>>]>>

(* values stored as the `phases` of a project *)
StoredPhaseLists == {smallRoadmap, storedRoadmap, placedRoadmap, flatSteps, <<>>}

(* what JSON.stringify wrote under the keys of the page for one project with
   the roadmap phs and the thoughts ths *)
persisted(phs, ths) ==
    [projects |-> JsonArray(<<[id |-> 0, phases |-> phs]>>),
     activeProjectId |-> <<0>>,
     thoughts |-> JsonArray(ths),
     legacyProject |-> Null,
     legacyNotes |-> Null]

(* the contents of localStorage the page is loaded with *)
StoredStates ==
    [projects : {Null, Malformed, JsonNull, JsonObject([id |-> 0])}
                   \cup {JsonArray(<<[id |-> 0, phases |-> pl]>>) :
                            pl \in StoredPhaseLists},
     activeProjectId : {Undefined, <<0>>},
     thoughts : {Null, Malformed, JsonNull, JsonObject([id |-> 1]),
                 JsonArray(storedThoughts)},
     legacyProject : {Null, Malformed, JsonNull, JsonObject([idea |-> "x"]),
                      JsonArray(flatSteps)}
                        \cup {JsonObject([idea |-> "x", phases |-> pl]) :
                                 pl \in StoredPhaseLists},
     legacyNotes : {Null, Malformed, JsonNull, JsonObject([id |-> 1]),
                    JsonArray(<<[id |-> 1], [id |-> 2]>>)}]

(* needsMigration: no new-format projects, and some legacy key present *)
needsMigration(st) ==
    IF st.projects # Null THEN FALSE
    ELSE st.legacyProject # Null \/ st.legacyNotes # Null

(* result.projects of migrateFromIteration2: JSON.parse throwing on text that
   is no JSON, and legacyProject.phases throwing on null, are caught; an
   object without phases, an array, and an empty phases array give nothing;
   otherwise the phases are taken over as they are, in a project with the
   id uid() returned *)
migratedProjects(st, id) ==
    LET raw == st.legacyProject
    IN  IF raw = Null THEN <<>>
        ELSE IF raw.kind \in {"malformed", "null", "array"} THEN <<>>
        ELSE IF "phases" \notin DOMAIN raw.value THEN <<>>
        ELSE IF Len(raw.value.phases) = 0 THEN <<>>
        ELSE <<[id |-> id, phases |-> raw.value.phases]>>

(* result.thoughts of migrateFromIteration2: JSON.parse throwing, and
   legacyNotes.map throwing on null and on an object, are caught; the notes of
   an array become thoughts linked to no step *)
migratedThoughts(st) ==
    LET raw == st.legacyNotes
    IN  IF raw = Null THEN <<>>
        ELSE IF raw.kind # "array" THEN <<>>
        ELSE [k \in 1..Len(raw.value) |->
                [id |-> raw.value[k].id, stepId |-> Undefined,
                 scheduledAt |-> Undefined, reminderDismissed |-> Undefined]]

migrateFromIteration2(st, id) ==
    [projects |-> JsonArray(migratedProjects(st, id)),
     thoughts |-> JsonArray(migratedThoughts(st)),
     activeProjectId |-> IF Len(migratedProjects(st, id)) > 0 THEN <<id>>
                         ELSE Undefined]

(* localStorage after migrateFromIteration2: the migrated data under the new
   keys, where there is any, and the legacy keys removed *)
storageAfterMigration(st, id) ==
    [projects |-> IF Len(migratedProjects(st, id)) > 0
                  THEN JsonArray(migratedProjects(st, id)) ELSE st.projects,
     activeProjectId |-> IF Len(migratedProjects(st, id)) > 0 THEN <<id>>
                         ELSE st.activeProjectId,
     thoughts |-> IF Len(migratedThoughts(st)) > 0
                  THEN JsonArray(migratedThoughts(st)) ELSE st.thoughts,
     legacyProject |-> Null,
     legacyNotes |-> Null]

(* `x = []; if (raw) { try { x = JSON.parse(raw) } catch {} }`: the parsed
   value whatever it is, and [] for an absent key and for text that is no
   JSON *)
parsedOrEmpty(raw) ==
    IF raw = Null THEN JsonArray(<<>>)
    ELSE IF raw.kind = "malformed" THEN JsonArray(<<>>)
    ELSE raw

(* loadFromStorage, id being what uid() returns if it is called *)
loadFromStorage(st, id) ==
    IF needsMigration(st) THEN migrateFromIteration2(st, id)
    ELSE [projects |-> parsedOrEmpty(st.projects),
          thoughts |-> parsedOrEmpty(st.thoughts),
          activeProjectId |-> st.activeProjectId]

(* projects.find((p) => p.id === activeProjectId) ?? null, on an array *)
activeProject(projects, activeProjectId) ==
    LET hits == {k \in 1..Len(projects) : <<projects[k].id>> = activeProjectId}
    IN  IF hits = {} THEN Null ELSE projects[CHOOSE k \in hits : \A j \in hits : k <= j]

(* what the page shows for the roadmap view with the loaded data:
   projects.find is no function unless projects is an array; without an
   active project it is the home view; otherwise the Roadmap, whose flatten
   reads phases.length, and p.steps.length of every element of phases *)
pageRender(result) ==
    IF result.projects.kind # "array" THEN "TypeError"
    ELSE LET p == activeProject(result.projects.value, result.activeProjectId)
         IN  IF p = Null THEN "home"
             ELSE IF "phases" \notin DOMAIN p THEN "TypeError"
             ELSE IF \E k \in 1..Len(p.phases) : "steps" \notin DOMAIN p.phases[k]
                  THEN "TypeError"
             ELSE "roadmap"

InitRest ==
    /\ nextId = 7
    /\ drags = 0
    /\ zoom = 100
    /\ pan = <<0, 0>>
    /\ thoughts = storedThoughts
    /\ stored = persisted(phases, thoughts)
    /\ now = 0
    /\ notified = {}
    /\ shown = <<>>
    /\ permission = "granted"
    /\ isEditing = FALSE
    /\ transform = Null
    /\ lastOp = [op |-> "init", arg |-> 0, frontier |-> TRUE]

(* a roadmap as created: every step incomplete *)
Init ==
    /\ phases = generateDefaultRoadmap([k \in 1..6 |-> FALSE])
    /\ InitRest

(* a roadmap as loaded from storage: the stored completed flags are taken as
   they are *)
InitLoaded ==
    /\ \E done \in [1..6 -> BOOLEAN] : phases = generateDefaultRoadmap(done)
    /\ InitRest

(* the canvas opened on the stored roadmap *)
InitCanvas ==
    /\ phases = storedRoadmap
    /\ InitRest

(* the list view opened on the small stored roadmap *)
InitEdit ==
    /\ phases = smallRoadmap
    /\ InitRest

----------------------------------------------------------------------------
(* Handlers.  A handler reads `current` from the rendered view, which React
   re-renders after every state update, and hands an updater to setPhases. *)

(* completeCurrent run on the roadmap phs as rendered: `if (!current) return`,
   then the updater applied to phs *)
completeCurrentOn(phs) ==
    LET c == current(flatten(phs))
    IN  IF c = Null THEN phs ELSE completeCurrentUpdater(phs, c)

flat == flatten(phases)

(* the ids of the steps of phs *)
StepIdsOf(phs) == {flatten(phs)[k].stepId : k \in 1..Len(flatten(phs))}

cur == current(flat)

done == allDone(flat)

ran(op, arg) ==
    [op |-> op, arg |-> arg, frontier |-> firstIncompleteIndex(flat) = -1
        \/ \A k \in (firstIncompleteIndex(flat) + 1)..Len(flat) : ~flat[k].completed]

focusStep(linearIndex) ==
    /\ phases' = setFocusByLinearIndex(phases, linearIndex)
    /\ isEditing' = FALSE
    /\ lastOp' = ran("focusStep", linearIndex)
    /\ UNCHANGED <<nextId, drags, zoom, pan, thoughts, transform,
                 now, notified, shown, permission>>
    /\ stored' = persisted(phases', thoughts')

(* the "Reopen last step" button, rendered in place of the current step when
   there is none *)
reopenLastStep ==
    /\ ~(~done /\ cur # Null)
    /\ Len(flat) > 0
    /\ phases' = setFocusByLinearIndex(phases, Max(0, Len(flat) - 1))
    /\ isEditing' = FALSE
    /\ lastOp' = ran("reopenLastStep", Max(0, Len(flat) - 1))
    /\ UNCHANGED <<nextId, drags, zoom, pan, thoughts, transform,
                 now, notified, shown, permission>>
    /\ stored' = persisted(phases', thoughts')

completeCurrent ==
    /\ phases' = completeCurrentOn(phases)
    /\ lastOp' = ran("completeCurrent", 0)
    /\ UNCHANGED <<nextId, drags, zoom, pan, thoughts,
                 isEditing, transform,
                 now, notified, shown, permission>>
    /\ stored' = persisted(phases', thoughts')

addStepBefore ==
    /\ nextId <= 6 + MaxInserts
    /\ phases' = IF cur = Null THEN phases
                 ELSE addStepBeforeUpdater(phases, cur, nextId)
    /\ nextId' = IF cur = Null THEN nextId ELSE nextId + 1
    /\ lastOp' = ran("addStepBefore", nextId)
    /\ UNCHANGED <<drags, zoom, pan, thoughts,
                 isEditing, transform,
                 now, notified, shown, permission>>
    /\ stored' = persisted(phases', thoughts')

addStepAfter ==
    /\ nextId <= 6 + MaxInserts
    /\ phases' = IF cur = Null THEN phases
                 ELSE addStepAfterUpdater(phases, cur, nextId)
    /\ nextId' = IF cur = Null THEN nextId ELSE nextId + 1
    /\ lastOp' = ran("addStepAfter", nextId)
    /\ UNCHANGED <<drags, zoom, pan, thoughts,
                 isEditing, transform,
                 now, notified, shown, permission>>
    /\ stored' = persisted(phases', thoughts')

(* removeCurrent, had it also unlinked the thoughts of the removed step *)
removeCurrentCascading ==
    /\ phases' = IF cur = Null THEN phases
                 ELSE removeCurrentUpdater(phases, cur)
    /\ thoughts' = [k \in 1..Len(thoughts) |->
                      IF cur # Null /\ thoughts[k].stepId = <<cur.stepId>>
                      THEN [thoughts[k] EXCEPT !.stepId = Undefined]
                      ELSE thoughts[k]]
    /\ lastOp' = ran("removeCurrent", 0)
    /\ UNCHANGED <<nextId, drags, zoom, pan,
                 isEditing, transform,
                 now, notified, shown, permission>>
    /\ stored' = persisted(phases', thoughts')

removeCurrent ==
    /\ phases' = IF cur = Null THEN phases
                 ELSE removeCurrentUpdater(phases, cur)
    /\ lastOp' = ran("removeCurrent", 0)
    /\ UNCHANGED <<nextId, drags, zoom, pan, thoughts,
                 isEditing, transform,
                 now, notified, shown, permission>>
    /\ stored' = persisted(phases', thoughts')

handleDragEnd(stepId, delta) ==
    /\ drags < MaxDrags
    /\ drags' = drags + 1
    /\ phases' = dragEndPhases(phases, stepId, delta)
    /\ lastOp' = ran("handleDragEnd", <<stepId, delta>>)
    /\ UNCHANGED <<nextId, zoom, pan, thoughts,
                 isEditing, transform,
                 now, notified, shown, permission>>
    /\ stored' = persisted(phases', thoughts')

(* Reminders.  Times are in units of 30 s, the polling interval. *)

(* the window after scheduledAt in which a check notifies: 60000 ms *)
Window == 2

(* the thoughts of ths, in order, that checkNotifications does not skip, the
   ids in ntf being notified already, and that are due at the time t:
   scheduledAt truthy, reminderDismissed falsy, 0 <= t - scheduledAt < 60 s *)
dueIgnoringNotified(ths, ntf, t) ==
    SelectSeq(ths, LAMBDA th :
        IF th.scheduledAt = Undefined THEN FALSE
        ELSE /\ th.scheduledAt[1] # 0
             /\ th.reminderDismissed # <<TRUE>>
             /\ t - th.scheduledAt[1] >= 0
             /\ t - th.scheduledAt[1] < Window)

dueThoughts(ths, ntf, t) ==
    SelectSeq(ths, LAMBDA th :
        IF th.scheduledAt = Undefined THEN FALSE
        ELSE /\ th.scheduledAt[1] # 0
             /\ th.reminderDismissed # <<TRUE>>
             /\ th.id \notin ntf
             /\ t - th.scheduledAt[1] >= 0
             /\ t - th.scheduledAt[1] < Window)

(* notifiedRef after checkNotifications *)
checkedNotified(ths, ntf, t) ==
    ntf \cup {dueThoughts(ths, ntf, t)[k].id :
                 k \in 1..Len(dueThoughts(ths, ntf, t))}

(* the notifications shown after checkNotifications: showNotification shows
   one unless the permission is not granted *)
checkedShown(ths, ntf, sh, t, perm) ==
    IF perm # "granted" THEN sh
    ELSE sh \o [k \in 1..Len(dueThoughts(ths, ntf, t)) |->
                  [id |-> dueThoughts(ths, ntf, t)[k].id, at |-> t]]

(* the clean-up effect: ids of thoughts no longer in the list leave
   notifiedRef *)
cleanedNotified(ths, ntf) ==
    {id \in ntf : \E k \in 1..Len(ths) : ths[k].id = id}

(* the effects that run after the thoughts changed to ths: the interval is
   set up again with an immediate checkNotifications, then the clean-up *)
notifiedAfterChange(ths) ==
    cleanedNotified(ths, checkedNotified(ths, notified, now))

shownAfterChange(ths) == checkedShown(ths, notified, shown, now, permission)

(* updateThought(id, { scheduledAt: timestamp, reminderDismissed: false }) *)
scheduleThoughtUpdater(prev, id, timestamp) ==
    [k \in 1..Len(prev) |->
       IF prev[k].id = id
       THEN [prev[k] EXCEPT !.scheduledAt = <<timestamp>>,
                            !.reminderDismissed = <<FALSE>>]
       ELSE prev[k]]

(* updateThought(id, { scheduledAt: undefined, reminderDismissed: undefined }) *)
unscheduleThoughtUpdater(prev, id) ==
    [k \in 1..Len(prev) |->
       IF prev[k].id = id
       THEN [prev[k] EXCEPT !.scheduledAt = Undefined,
                            !.reminderDismissed = Undefined]
       ELSE prev[k]]

(* updateThought(id, { reminderDismissed: true }) *)
dismissReminderUpdater(prev, id) ==
    [k \in 1..Len(prev) |->
       IF prev[k].id = id
       THEN [prev[k] EXCEPT !.reminderDismissed = <<TRUE>>]
       ELSE prev[k]]

(* prev.filter((t) => t.id !== id) *)
deleteThoughtUpdater(prev, id) == SelectSeq(prev, LAMBDA th : th.id # id)

(* the frame of a handler that sets the thoughts and nothing else of the
   page: the thoughts are persisted and the effects run *)
thoughtsSet ==
    /\ UNCHANGED <<phases, nextId, drags, zoom, pan, isEditing, transform,
                   now, permission>>
    /\ stored' = persisted(phases', thoughts')
    /\ notified' = notifiedAfterChange(thoughts')
    /\ shown' = shownAfterChange(thoughts')

(* 30 s pass *)
tick ==
    /\ now < MaxNow
    /\ now' = now + 1
    /\ lastOp' = ran("tick", now + 1)
    /\ UNCHANGED <<phases, nextId, drags, zoom, pan, thoughts, stored,
                   isEditing, transform, notified, shown, permission>>

(* the interval fires: checkNotifications *)
checkNotifications ==
    /\ notified' = checkedNotified(thoughts, notified, now)
    /\ shown' = checkedShown(thoughts, notified, shown, now, permission)
    /\ lastOp' = ran("checkNotifications", now)
    /\ UNCHANGED <<phases, nextId, drags, zoom, pan, thoughts, stored,
                   isEditing, transform, now, permission>>

scheduleThought(thoughtId, timestamp) ==
    /\ thoughts' = scheduleThoughtUpdater(thoughts, thoughtId, timestamp)
    /\ lastOp' = ran("scheduleThought", <<thoughtId, timestamp>>)
    /\ thoughtsSet

unscheduleThought(thoughtId) ==
    /\ thoughts' = unscheduleThoughtUpdater(thoughts, thoughtId)
    /\ lastOp' = ran("unscheduleThought", thoughtId)
    /\ thoughtsSet

(* a click on the notification shown for a thought *)
dismissReminder(thoughtId) ==
    /\ \E k \in 1..Len(shown) : shown[k].id = thoughtId
    /\ thoughts' = dismissReminderUpdater(thoughts, thoughtId)
    /\ lastOp' = ran("dismissReminder", thoughtId)
    /\ thoughtsSet

deleteThought(thoughtId) ==
    /\ thoughts' = deleteThoughtUpdater(thoughts, thoughtId)
    /\ lastOp' = ran("deleteThought", thoughtId)
    /\ thoughtsSet

(* updateThought applying the updates to every thought *)
updateThoughtEvery(prev, id, stepId) ==
    [k \in 1..Len(prev) |-> [prev[k] EXCEPT !.stepId = stepId]]

(* updateThought(id, updates) with updates = { stepId }: the thought with that
   id gets the stepId, the others stay *)
updateThought(prev, id, stepId) ==
    [k \in 1..Len(prev) |->
       IF prev[k].id = id THEN [prev[k] EXCEPT !.stepId = stepId] ELSE prev[k]]

(* the stepId the checkbox of a thought hands to onToggle in the selector
   opened on a step: undefined for a thought linked to that step, the step's
   id for any other *)
toggledStepId(thought, step) ==
    IF thought.stepId = <<step.stepId>> THEN Undefined ELSE <<step.stepId>>

(* the checkbox of a thought in the selector opened on a step of the canvas:
   it unlinks a thought linked to that step, and links any other to it *)
handleThoughtToggle(thoughtId, stepId) ==
    /\ thoughts' = updateThought(thoughts, thoughtId, stepId)
    /\ lastOp' = ran("handleThoughtToggle", <<thoughtId, stepId>>)
    /\ thoughtsSet

(* the updater a handler hands to setPhases, c being the current step the
   handler captured from the render it was called in *)
updaterOf(handler, prev, c) ==
    IF handler = "completeCurrent" THEN completeCurrentUpdater(prev, c)
    ELSE removeCurrentUpdater(prev, c)

(* two handlers called from the same render, before React renders again: both
   captured the same `current`, and setPhases applies their updaters one
   after the other, the second to the state the first returned *)
dispatchFromSameRender(first, second) ==
    /\ cur # Null
    /\ phases' = updaterOf(second, updaterOf(first, phases, cur), cur)
    /\ lastOp' = ran("dispatchFromSameRender", <<first, second>>)
    /\ UNCHANGED <<nextId, drags, zoom, pan, thoughts,
                 isEditing, transform,
                 now, notified, shown, permission>>
    /\ stored' = persisted(phases', thoughts')

handleZoomIn ==
    /\ zoom' = zoomInUpdater(zoom)
    /\ lastOp' = ran("handleZoomIn", 0)
    /\ UNCHANGED <<phases, nextId, drags, pan, thoughts,
                 isEditing, transform,
                 now, notified, shown, permission>>
    /\ stored' = persisted(phases', thoughts')

handleZoomOut ==
    /\ zoom' = zoomOutUpdater(zoom)
    /\ lastOp' = ran("handleZoomOut", 0)
    /\ UNCHANGED <<phases, nextId, drags, pan, thoughts,
                 isEditing, transform,
                 now, notified, shown, permission>>
    /\ stored' = persisted(phases', thoughts')

(* handleResetZoom setting the pan from the content: the viewport centre of
   a 1000 x 600 container minus the first step's position *)
handleResetZoomCentering ==
    /\ zoom' = 100
    /\ pan' = IF Len(flattenCanvas(phases)) = 0 THEN <<0, 0>>
              ELSE <<500 - flattenCanvas(phases)[1].x,
                     300 - flattenCanvas(phases)[1].y>>
    /\ lastOp' = ran("handleResetZoom", 0)
    /\ UNCHANGED <<phases, nextId, drags, thoughts,
                 isEditing, transform,
                 now, notified, shown, permission>>
    /\ stored' = persisted(phases', thoughts')

handleResetZoom ==
    /\ zoom' = 100
    /\ pan' = <<0, 0>>
    /\ lastOp' = ran("handleResetZoom", 0)
    /\ UNCHANGED <<phases, nextId, drags, thoughts,
                 isEditing, transform,
                 now, notified, shown, permission>>
    /\ stored' = persisted(phases', thoughts')

(* the wheel zooms only with ctrl or meta held *)
handleWheel(ctrlOrMeta, deltaY) ==
    /\ zoom' = IF ctrlOrMeta THEN wheelUpdater(zoom, deltaY) ELSE zoom
    /\ lastOp' = ran("handleWheel", <<ctrlOrMeta, deltaY>>)
    /\ UNCHANGED <<phases, nextId, drags, pan, thoughts,
                 isEditing, transform,
                 now, notified, shown, permission>>
    /\ stored' = persisted(phases', thoughts')

(* the text input of the current step: every change of the input's value
   calls setStepText with the current step's id *)
setStepText(stepId, text) ==
    /\ \/ \E k \in 1..Len(flat) : flat[k].stepId = stepId /\ flat[k].text \in EditTexts
       \/ Cardinality({k \in 1..Len(flat) : flat[k].text \in EditTexts}) < MaxEdits
    /\ phases' = setStepTextUpdater(phases, stepId, text)
    /\ lastOp' = ran("setStepText", <<stepId, text>>)
    /\ UNCHANGED <<nextId, drags, zoom, pan, thoughts,
                 isEditing, transform,
                 now, notified, shown, permission>>
    /\ stored' = persisted(phases', thoughts')

(* the effect the page runs once when it mounts: loadFromStorage, the setters,
   and the render that follows *)
pageLoad ==
    LET result == loadFromStorage(stored, nextId)
        migrates == needsMigration(stored)
    IN  /\ lastOp.op = "init"
        /\ phases' = IF pageRender(result) = "roadmap"
                     THEN activeProject(result.projects.value,
                                        result.activeProjectId).phases
                     ELSE <<>>
        /\ thoughts' = IF result.thoughts.kind = "array"
                       THEN result.thoughts.value ELSE <<>>
        /\ nextId' = IF migrates /\ Len(migratedProjects(stored, nextId)) > 0
                     THEN nextId + 1 ELSE nextId
        /\ stored' = IF migrates THEN storageAfterMigration(stored, nextId)
                     ELSE stored
        /\ lastOp' = [op |-> "loadFromStorage",
                      arg |-> [from |-> stored, result |-> result,
                               rendered |-> pageRender(result)],
                      frontier |-> TRUE]
        /\ notified' = notifiedAfterChange(thoughts')
        /\ shown' = shownAfterChange(thoughts')
        /\ UNCHANGED <<drags, zoom, pan, isEditing, transform, now,
                       permission>>

(* a click on the title of the current step shows its text input *)
startEditing ==
    /\ ~isEditing
    /\ ~done /\ cur # Null
    /\ isEditing' = TRUE
    /\ lastOp' = ran("startEditing", 0)
    /\ UNCHANGED <<phases, nextId, drags, zoom, pan, thoughts, transform,
                 now, notified, shown, permission>>
    /\ stored' = persisted(phases', thoughts')

(* onChange of the text input, which is there while isEditing: a change of
   the input's value during the edit *)
onChange(text) ==
    /\ isEditing
    /\ ~done /\ cur # Null
    /\ cur.text # text
    /\ setStepText(cur.stepId, text)

(* onBlur of the text input, and Enter and Escape in it *)
onBlur ==
    /\ isEditing
    /\ isEditing' = FALSE
    /\ lastOp' = ran("onBlur", 0)
    /\ UNCHANGED <<phases, nextId, drags, zoom, pan, thoughts, transform,
                 now, notified, shown, permission>>
    /\ stored' = persisted(phases', thoughts')

(* the pointer moving with a step of the canvas held: useDraggable gives the
   step's card the offset so far as `transform` *)
onDragMove(stepId, delta) ==
    /\ drags < MaxDrags
    /\ findByStepId(flattenCanvas(phases), stepId) # Null
    /\ IF transform = Null THEN TRUE ELSE transform.id = stepId
    /\ transform' = [id |-> stepId, delta |-> delta]
    /\ lastOp' = ran("onDragMove", <<stepId, delta>>)
    /\ UNCHANGED <<phases, nextId, drags, zoom, pan, thoughts, isEditing,
                 now, notified, shown, permission>>
    /\ stored' = persisted(phases', thoughts')

(* the pointer released: the drag ends with the offset it had, handleDragEnd
   runs, and the card has no transform any more *)
onDragEnd ==
    /\ transform # Null
    /\ drags' = drags + 1
    /\ phases' = dragEndPhases(phases, transform.id, transform.delta)
    /\ transform' = Null
    /\ lastOp' = ran("handleDragEnd", <<transform.id, transform.delta>>)
    /\ UNCHANGED <<nextId, zoom, pan, thoughts, isEditing,
                 now, notified, shown, permission>>
    /\ stored' = persisted(phases', thoughts')

(* the up and down buttons of the step at `index` of the active phase *)
moveStep(activeId, index, direction) ==
    /\ phases' = moveStepUpdater(phases, activeId, index, direction)
    /\ lastOp' = ran("moveStep", <<activeId, index, direction>>)
    /\ UNCHANGED <<nextId, drags, zoom, pan, thoughts,
                 isEditing, transform,
                 now, notified, shown, permission>>
    /\ stored' = persisted(phases', thoughts')

(* the focus machine *)
Next ==
    \/ \E linearIndex \in -1..(Len(flat) + 1) : focusStep(linearIndex)
    \/ reopenLastStep
    \/ completeCurrent
    \/ addStepBefore
    \/ addStepAfter
    \/ removeCurrent

(* the focus machine and the canvas *)
NextCanvas ==
    \/ Next
    \/ \E stepId \in 0..(nextId - 1) : \E delta \in DragDeltas :
          handleDragEnd(stepId, delta)

(* the focus machine under rapid interaction: two handlers called from one
   render, and drag ends that arrive for a step that is no longer (or never
   was) in the roadmap *)
NextRapid ==
    \/ Next
    \/ \E first, second \in {"completeCurrent", "removeCurrent"} :
          dispatchFromSameRender(first, second)
    \/ \E stepId \in 0..(nextId - 1) : \E delta \in DragDeltas :
          /\ findByStepId(flattenCanvas(phases), stepId) = Null
          /\ handleDragEnd(stepId, delta)

(* the canvas view: zooming and dragging, on a roadmap that loses steps *)
NextView ==
    \/ handleZoomIn
    \/ handleZoomOut
    \/ handleResetZoom
    \/ \E ctrlOrMeta \in BOOLEAN : \E deltaY \in WheelDeltas :
          handleWheel(ctrlOrMeta, deltaY)
    \/ \E stepId \in 0..(nextId - 1) : \E delta \in DragDeltas :
          handleDragEnd(stepId, delta)
    \/ removeCurrent

(* the roadmap losing steps while thoughts are linked and unlinked *)
NextThoughts ==
    \/ \E linearIndex \in 0..(Len(flat) - 1) : focusStep(linearIndex)
    \/ completeCurrent
    \/ removeCurrent
    \/ \E t \in 1..Len(thoughts) : \E k \in 1..Len(flat) :
          handleThoughtToggle(thoughts[t].id,
                              toggledStepId(thoughts[t], flat[k]))

(* the page loading what it finds in localStorage *)
NextStorage == pageLoad

(* interactions in progress: the text input of the current step between
   the click that opens it and its blur, and a drag between its first move
   and the release *)
NextInteract ==
    \/ \E linearIndex \in -1..(Len(flat) + 1) : focusStep(linearIndex)
    \/ completeCurrent
    \/ startEditing
    \/ \E text \in EditTexts : onChange(text)
    \/ onBlur
    \/ \E stepId \in StepIdsOf(phases) : \E delta \in DragDeltas :
          onDragMove(stepId, delta)
    \/ onDragEnd

(* the reminders: the clock, the polling interval, and the user scheduling,
   unscheduling, dismissing and deleting thoughts *)
NextReminders ==
    \/ tick
    \/ checkNotifications
    \/ \E k \in 1..Len(thoughts) : \E timestamp \in ScheduleTimes :
          scheduleThought(thoughts[k].id, timestamp)
    \/ \E k \in 1..Len(thoughts) : unscheduleThought(thoughts[k].id)
    \/ \E k \in 1..Len(thoughts) : dismissReminder(thoughts[k].id)
    \/ \E k \in 1..Len(thoughts) : deleteThought(thoughts[k].id)

(* the list view: steps moved up and down within their phase, on a roadmap
   that gains and loses steps *)
NextReorder ==
    \/ \E pi \in 1..Len(phases) :
          \E index \in 0..(Len(phases[pi].steps) - 1) :
             \E direction \in {"up", "down"} :
                moveStep(phases[pi].id, index, direction)
    \/ completeCurrent
    \/ addStepBefore
    \/ addStepAfter
    \/ removeCurrent

(* the focus machine with text edits, reorders and drags *)
NextEdit ==
    \/ Next
    \/ \E text \in EditTexts :
          cur # Null /\ cur.text # text /\ setStepText(cur.stepId, text)
    \/ \E pi \in 1..Len(phases) :
          \E index \in 0..(Len(phases[pi].steps) - 1) :
             \E direction \in {"up", "down"} :
                moveStep(phases[pi].id, index, direction)
    \/ \E stepId \in 0..(nextId - 1) : \E delta \in DragDeltas :
          handleDragEnd(stepId, delta)

Spec == Init /\ [][Next]_vars

SpecLoaded == InitLoaded /\ [][Next]_vars

SpecCanvas == InitCanvas /\ [][NextCanvas]_vars

SpecRapid == InitCanvas /\ [][NextRapid]_vars

SpecView == InitCanvas /\ [][NextView]_vars

SpecEdit == InitEdit /\ [][NextEdit]_vars

(* the page before it has loaded anything, over every stored state *)
InitStorage ==
    /\ stored \in StoredStates
    /\ phases = <<>>
    /\ thoughts = <<>>
    /\ nextId = 7
    /\ drags = 0
    /\ zoom = 100
    /\ pan = <<0, 0>>
    /\ isEditing = FALSE
    /\ transform = Null
    /\ now = 0
    /\ notified = {}
    /\ shown = <<>>
    /\ permission = "granted"
    /\ lastOp = [op |-> "init", arg |-> 0, frontier |-> TRUE]

SpecStorage == InitStorage /\ [][NextStorage]_vars

(* the page with its stored thoughts, the permission to notify granted or
   not *)
InitReminders ==
    /\ phases = storedRoadmap
    /\ thoughts = storedThoughts
    /\ stored = persisted(phases, thoughts)
    /\ nextId = 7
    /\ drags = 0
    /\ zoom = 100
    /\ pan = <<0, 0>>
    /\ isEditing = FALSE
    /\ transform = Null
    /\ now = 0
    /\ notified = {}
    /\ shown = <<>>
    /\ permission \in {"granted", "denied"}
    /\ lastOp = [op |-> "init", arg |-> 0, frontier |-> TRUE]

SpecReminders == InitReminders /\ [][NextReminders]_vars

SpecReorder == InitCanvas /\ [][NextReorder]_vars

SpecInteract == InitEdit /\ [][NextInteract]_vars

SpecThoughts == InitCanvas /\ [][NextThoughts]_vars

----------------------------------------------------------------------------
(* Vocabulary of the properties *)

(* the steps in linear order: the phases' step lists, concatenated *)
RECURSIVE LinearSteps(_)
LinearSteps(phs) ==
    IF Len(phs) = 0 THEN <<>>
    ELSE phs[1].steps \o LinearSteps(SubSeq(phs, 2, Len(phs)))

Clamp(i, lo, hi) == IF i < lo THEN lo ELSE IF i > hi THEN hi ELSE i

(* the completed flags are a prefix of TRUE followed only by FALSE *)
IsFrontier(phs) ==
    LET st == LinearSteps(phs)
    IN  \A a, b \in 1..Len(st) : (a < b /\ st[b].completed) => st[a].completed

(* the three states of the focus machine *)
IsEmpty(phs) == Len(LinearSteps(phs)) = 0

IsAllDone(phs) ==
    /\ ~IsEmpty(phs)
    /\ \A k \in 1..Len(LinearSteps(phs)) : LinearSteps(phs)[k].completed

HasFocus(phs) ==
    \E k \in 1..Len(LinearSteps(phs)) : ~LinearSteps(phs)[k].completed

(* the 0-based linear index of the current step of a roadmap that has one *)
FocusOf(phs) ==
    CHOOSE f \in 0..(Len(LinearSteps(phs)) - 1) :
        /\ ~LinearSteps(phs)[f + 1].completed
        /\ \A k \in 1..f : LinearSteps(phs)[k].completed

(* completeCurrent run n times in a row *)
RECURSIVE CompleteTimes(_, _)
CompleteTimes(phs, n) ==
    IF n = 0 THEN phs ELSE CompleteTimes(completeCurrentOn(phs), n - 1)

----------------------------------------------------------------------------
(* C1  Monotonic frontier law: after focusStep(I) on any roadmap, whatever
   its completed flags were, a step is completed exactly when its linear
   index is below I clamped into [0, length - 1]. *)
C1_FrontierLaw ==
    lastOp.op = "focusStep" =>
        LET st == LinearSteps(phases)
        IN  \A k \in 1..Len(st) :
               st[k].completed <=> (k - 1 < Clamp(lastOp.arg, 0, Len(st) - 1))

(* focusStep ran with an index above the last one on a roadmap of several
   steps, and left all but the last step completed *)
C1_Witness ==
    /\ lastOp.op = "focusStep"
    /\ Len(LinearSteps(phases)) >= 2
    /\ lastOp.arg > Len(LinearSteps(phases)) - 1
    /\ LinearSteps(phases)[1].completed
    /\ ~LinearSteps(phases)[Len(LinearSteps(phases))].completed

(* C2  Frontier invariant: from a roadmap whose steps are all incomplete, no
   sequence of focusStep, completeCurrent, addStepBefore, addStepAfter and
   removeCurrent reaches a state with a completed step after an incomplete
   one. *)
C2_FrontierInvariant == IsFrontier(phases)

(* a step was inserted, a step was removed, and the roadmap now has both a
   completed and an incomplete step *)
C2_Witness ==
    /\ lastOp.op = "removeCurrent"
    /\ nextId > 7
    /\ \E k \in 1..Len(LinearSteps(phases)) : LinearSteps(phases)[k].completed
    /\ \E k \in 1..Len(LinearSteps(phases)) : ~LinearSteps(phases)[k].completed

(* what the monotonic advance law says of one step from phs to phs2: every
   step completed before is completed after, and every step after the current
   one keeps its flag *)
AdvancesMonotonically(phs, phs2) ==
    LET a == LinearSteps(phs)
        b == LinearSteps(phs2)
    IN  /\ Len(b) = Len(a)
        /\ \A k \in 1..Len(a) : a[k].completed => b[k].completed
        /\ HasFocus(phs) =>
              \A k \in (FocusOf(phs) + 2)..Len(a) :
                 b[k].completed = a[k].completed

(* C3 as claimed  Monotonic advance law for every roadmap state: a
   completeCurrent step leaves completed every step that was completed, and
   leaves the flag of every step after the current one as it was. *)
C3_MonotonicAdvanceAnyState ==
    [][lastOp'.op = "completeCurrent" =>
          AdvancesMonotonically(phases, phases')]_vars

(* C3 as amended  Monotonic advance law for every roadmap state whose
   completed flags are a frontier (a prefix of TRUE followed only by FALSE):
   a completeCurrent step leaves completed every step that was completed,
   completes the current one, and leaves the flag of every step after the
   current one as it was. *)
C3_MonotonicAdvance ==
    [][(lastOp'.op = "completeCurrent" /\ IsFrontier(phases)) =>
          /\ AdvancesMonotonically(phases, phases')
          /\ HasFocus(phases) =>
                LinearSteps(phases')[FocusOf(phases) + 1].completed]_vars

(* completeCurrent ran on a frontier state that had completed steps, a current
   step and steps after it *)
C3_Witness ==
    /\ lastOp.op = "completeCurrent"
    /\ lastOp.frontier
    /\ Len(LinearSteps(phases)) >= 3
    /\ LinearSteps(phases)[2].completed
    /\ ~LinearSteps(phases)[Len(LinearSteps(phases))].completed

(* C4  From a frontier state of N steps with the focus at F < N, one
   completeCurrent puts the focus at F + 1 when F + 1 < N and yields ALL_DONE
   with all N steps completed when F = N - 1; k calls in a row put it at
   F + k, so N calls from focus 0 visit 0, 1, ..., N - 1 in order and end in
   ALL_DONE. *)
C4_AdvanceByOne ==
    (IsFrontier(phases) /\ HasFocus(phases)) =>
        LET n == Len(LinearSteps(phases))
            f == FocusOf(phases)
        IN  \A k \in 1..(n - f) :
               LET r == CompleteTimes(phases, k)
               IN  /\ Len(LinearSteps(r)) = n
                   /\ (f + k < n) =>
                         /\ firstIncompleteIndex(flatten(r)) = f + k
                         /\ ~allDone(flatten(r))
                   /\ (f + k = n) =>
                         /\ allDone(flatten(r))
                         /\ firstIncompleteIndex(flatten(r)) = -1
                         /\ \A j \in 1..n : LinearSteps(r)[j].completed

(* completeCurrent completed the last step of a roadmap of several steps *)
C4_Witness ==
    /\ lastOp.op = "completeCurrent"
    /\ Len(LinearSteps(phases)) >= 4
    /\ allDone(flat)

(* C5  focusStep is idempotent: once focusStep(I) has run, running it again
   with the same I changes nothing. *)
C5_Idempotent ==
    lastOp.op = "focusStep" =>
        setFocusByLinearIndex(phases, lastOp.arg) = phases

(* focusStep ran with an index strictly inside the roadmap *)
C5_Witness ==
    /\ lastOp.op = "focusStep"
    /\ lastOp.arg > 0
    /\ lastOp.arg < Len(LinearSteps(phases)) - 1
    /\ LinearSteps(phases)[lastOp.arg].completed
    /\ ~LinearSteps(phases)[lastOp.arg + 1].completed

(* the roadmap with every completed flag cleared *)
ClearFlags(phs) ==
    [pi \in 1..Len(phs) |->
       [phs[pi] EXCEPT !.steps =
          [si \in 1..Len(phs[pi].steps) |->
             [phs[pi].steps[si] EXCEPT !.completed = FALSE]]]]

(* C6  focusStep is deterministic and reversible.  The roadmap that
   focusStep(I) leaves is the one focusStep(I) gives from the same structure
   with all flags cleared: it depends on the structure and I only, never on
   the flags before, and every step at or after the clamped index is open in
   it, whatever it was before.  focusStep changes no structure.  And from
   every loaded roadmap R, focusStep(J) after focusStep(I) gives what
   focusStep(J) gives on R, for every I and J; the first part yields the same
   for the roadmaps reached later, focusStep(J) being a step from each. *)
C6_DeterministicReversible ==
    /\ [](lastOp.op = "focusStep" =>
            LET n == Len(LinearSteps(phases))
            IN  /\ phases = setFocusByLinearIndex(ClearFlags(phases), lastOp.arg)
                /\ \A k \in 1..n :
                      (k - 1 >= Clamp(lastOp.arg, 0, n - 1)) =>
                          ~LinearSteps(phases)[k].completed)
    /\ [][lastOp'.op = "focusStep" =>
            /\ ClearFlags(phases') = ClearFlags(phases)
            /\ lastOp.op = "init" =>
                  \A j \in -1..(Len(LinearSteps(phases)) + 1) :
                     setFocusByLinearIndex(phases', j)
                       = setFocusByLinearIndex(phases, j)]_vars

(* focusStep(0) ran on a roadmap whose flags were no frontier, so at least one
   completed step, and left every step open *)
C6_Witness ==
    /\ lastOp.op = "focusStep"
    /\ ~lastOp.frontier
    /\ lastOp.arg = 0
    /\ Len(LinearSteps(phases)) >= 2
    /\ \A k \in 1..Len(LinearSteps(phases)) : ~LinearSteps(phases)[k].completed

(* C7  From ALL_DONE on a roadmap of N >= 1 steps, focusing the last linear
   index N - 1 (the "Reopen last step" button, or focusStep(N - 1)) reopens
   the last step only: steps 0..N-2 stay completed, step N-1 is incomplete and
   is the current step. *)
C7_ReopenLast ==
    [][(/\ IsAllDone(phases)
        /\ lastOp'.op \in {"reopenLastStep", "focusStep"}
        /\ lastOp'.arg = Len(LinearSteps(phases)) - 1) =>
          LET n == Len(LinearSteps(phases))
              b == LinearSteps(phases')
          IN  /\ Len(b) = n
              /\ \A k \in 1..(n - 1) : b[k].completed
              /\ ~b[n].completed
              /\ current(flatten(phases')) # Null
              /\ current(flatten(phases')).stepId = LinearSteps(phases)[n].id]_vars

(* the "Reopen last step" button was pressed on a roadmap of several steps:
   all but the last are completed *)
C7_Witness ==
    /\ lastOp.op = "reopenLastStep"
    /\ Len(LinearSteps(phases)) >= 3
    /\ \A k \in 1..(Len(LinearSteps(phases)) - 1) : LinearSteps(phases)[k].completed
    /\ ~LinearSteps(phases)[Len(LinearSteps(phases))].completed

(* C8  removeCurrent on a frontier state with a current step deletes exactly
   that step: the earlier steps keep their order and flags, the later steps
   keep their order, no phase is added or dropped; the step that followed the
   removed one, if any, is the current step; if none followed, the roadmap is
   ALL_DONE, or EMPTY when no step remains. *)
C8_RemoveCurrent ==
    [][(lastOp'.op = "removeCurrent" /\ IsFrontier(phases) /\ HasFocus(phases)) =>
          LET a == LinearSteps(phases)
              b == LinearSteps(phases')
              f == FocusOf(phases) + 1
              c2 == current(flatten(phases'))
          IN  /\ Len(phases') = Len(phases)
              /\ Len(b) = Len(a) - 1
              /\ \A k \in 1..(f - 1) : b[k] = a[k]
              /\ \A k \in f..Len(b) : b[k].id = a[k + 1].id
              /\ (f < Len(a)) => (c2 # Null /\ c2.stepId = a[f + 1].id)
              /\ (f = Len(a) /\ Len(b) > 0) =>
                    (c2 = Null /\ IsAllDone(phases'))
              /\ (Len(b) = 0) =>
                    (c2 = Null /\ IsEmpty(phases') /\ ~allDone(flatten(phases')))
              /\ IsFrontier(phases')]_vars

(* removeCurrent ran and left a completed step followed by the new current
   step, as in [A(done), B(current), C] -> [A(done), C(current)] *)
C8_Witness ==
    /\ lastOp.op = "removeCurrent"
    /\ lastOp.frontier
    /\ Len(LinearSteps(phases)) >= 2
    /\ LinearSteps(phases)[1].completed
    /\ cur # Null
    /\ cur.linearIndex >= 1

(* C9  Clamping law: every position stored by a drag lies inside the canvas
   on both axes (here with no margin at all, the weakest form of the law):
   0 <= x <= width and 0 <= y <= height of the canvas bounds computed from the
   committed positions. *)
C9_ClampingLaw ==
    lastOp.op = "handleDragEnd" =>
        LET fc == flattenCanvas(phases)
            bounds == canvasBounds(fc)
        IN  \A k \in 1..Len(fc) :
               LinearSteps(phases)[k].x # Undefined =>
                  /\ 0 <= fc[k].x /\ fc[k].x <= bounds.width
                  /\ 0 <= fc[k].y /\ fc[k].y <= bounds.height

(* where the canvas places step id of roadmap phs *)
PlacedAt(phs, id) ==
    LET r == findByStepId(flattenCanvas(phs), id)
    IN  <<r.x, r.y>>

StepIds(phs) == {LinearSteps(phs)[k].id : k \in 1..Len(LinearSteps(phs))}

(* C10  Canvas positions are independent of completion and focus: a
   completeCurrent, focusStep, reopen, insert or remove step leaves every
   step that exists before and after it at the same (x, y), whether the
   position is stored or comes from the default layout. *)
C10_PositionsIndependent ==
    [][lastOp'.op \in {"completeCurrent", "focusStep", "reopenLastStep",
                       "addStepBefore", "addStepAfter", "removeCurrent"} =>
          \A id \in StepIds(phases) \cap StepIds(phases') :
             PlacedAt(phases', id) = PlacedAt(phases, id)]_vars

(* the roadmaps one operation of the focus machine gives from phs: focusStep
   with any index, completeCurrent, addStepBefore, addStepAfter (the new step
   taking the id `id`) and removeCurrent, each as its handler runs it *)
OneOperation(phs, id) ==
    LET fl == flatten(phs)
        c == current(fl)
    IN  {setFocusByLinearIndex(phs, i) : i \in -1..(Len(fl) + 1)}
          \cup {completeCurrentOn(phs)}
          \cup (IF c = Null THEN {phs}
                ELSE {addStepBeforeUpdater(phs, c, id),
                      addStepAfterUpdater(phs, c, id),
                      removeCurrentUpdater(phs, c)})

(* C11  HAS_FOCUS is re-enterable: from every reachable ALL_DONE state and
   from every reachable EMPTY state, some sequence of focusStep,
   completeCurrent, addStepBefore, addStepAfter and removeCurrent reaches a
   state with a current step.  Sequences of one and of two operations are
   written out; an empty roadmap is the only roadmap any operation gives from
   an empty roadmap, so longer sequences from it reach nothing else. *)
C11_Reenterable ==
    (IsAllDone(phases) \/ IsEmpty(phases)) =>
        \E s \in OneOperation(phases, nextId) :
           \/ HasFocus(s)
           \/ \E t \in OneOperation(s, nextId + 1) : HasFocus(t)

(* the entries of a flattened sequence that belong to the phase at 0-based
   index pi, in the order they appear *)
RefsOfPhase(fl, pi) == SelectSeq(fl, LAMBDA r : r.phaseIndex = pi)

(* C12  flatten lists every step exactly once, in phase order and then step
   order within the phase, and linearIndex is the 0-based position in that
   concatenation; every entry carries the ids, name, text and flag of the step
   at its (phaseIndex, stepIndex); grouping the entries by phaseIndex and
   reading them in stepIndex order gives back each phase's step list. *)
C12_FlattenRoundTrip ==
    LET fl == flatten(phases)
        st == LinearSteps(phases)
    IN  /\ Len(fl) = Len(st)
        /\ \A k \in 1..Len(fl) :
              /\ fl[k].linearIndex = k - 1
              /\ fl[k].stepId = st[k].id
              /\ fl[k].text = st[k].text
              /\ fl[k].completed = st[k].completed
              /\ fl[k].phaseIndex \in 0..(Len(phases) - 1)
              /\ fl[k].phaseId = phases[fl[k].phaseIndex + 1].id
              /\ fl[k].phaseName = phases[fl[k].phaseIndex + 1].name
              /\ fl[k].stepIndex \in
                   0..(Len(phases[fl[k].phaseIndex + 1].steps) - 1)
              /\ phases[fl[k].phaseIndex + 1].steps[fl[k].stepIndex + 1].id
                   = fl[k].stepId
        /\ \A a, b \in 1..Len(fl) :
              a < b =>
                 \/ fl[a].phaseIndex < fl[b].phaseIndex
                 \/ /\ fl[a].phaseIndex = fl[b].phaseIndex
                    /\ fl[a].stepIndex < fl[b].stepIndex
        /\ \A pi \in 1..Len(phases) :
              LET refs == RefsOfPhase(fl, pi - 1)
              IN  /\ Len(refs) = Len(phases[pi].steps)
                  /\ \A si \in 1..Len(refs) :
                        /\ refs[si].stepIndex = si - 1
                        /\ refs[si].stepId = phases[pi].steps[si].id
                        /\ refs[si].text = phases[pi].steps[si].text
                        /\ refs[si].completed = phases[pi].steps[si].completed

(* a roadmap with an inserted step whose middle phase has lost all its steps
   while the phases around it have some: the last entry of the flattened
   sequence belongs to the third phase and has the last linear index *)
C12_Witness ==
    /\ Len(phases[1].steps) >= 1
    /\ phases[2].steps = <<>>
    /\ Len(phases[3].steps) >= 1
    /\ nextId > 7
    /\ flat[Len(flat)].phaseIndex = 2
    /\ flat[Len(flat)].linearIndex = Len(flat) - 1
    /\ flat[Len(flat)].linearIndex >= 2

(* C13  firstIncompleteIndex is the linear index of the first step whose
   completed flag is false, whatever the flags after it, and -1 exactly when
   the roadmap has no step or every step is completed; allDone is true
   exactly when the roadmap has a step and every step is completed; so
   exactly one of HAS_FOCUS (there is a current step), ALL_DONE (allDone) and
   EMPTY (no step) holds, and the current step is the first incomplete one. *)
C13_ThreeStates ==
    LET fl == flatten(phases)
        st == LinearSteps(phases)
        fi == firstIncompleteIndex(fl)
        everyCompleted == \A k \in 1..Len(st) : st[k].completed
        hasFocus == current(fl) # Null
        isAllDone == allDone(fl)
        isEmpty == Len(fl) = 0
    IN  /\ (fi = -1) <=> (Len(st) = 0 \/ everyCompleted)
        /\ (fi # -1) =>
              /\ fi \in 0..(Len(st) - 1)
              /\ ~st[fi + 1].completed
              /\ \A k \in 1..fi : st[k].completed
        /\ isAllDone <=> (Len(st) > 0 /\ everyCompleted)
        /\ hasFocus \/ isAllDone \/ isEmpty
        /\ ~(hasFocus /\ isAllDone)
        /\ ~(hasFocus /\ isEmpty)
        /\ ~(isAllDone /\ isEmpty)
        /\ hasFocus =>
              /\ current(fl).linearIndex = fi
              /\ current(fl).stepId = st[fi + 1].id

(* a loaded roadmap whose flags are no frontier: the first incomplete step is
   the second one, and a completed step and another incomplete step follow *)
C13_Witness ==
    /\ Len(flat) >= 4
    /\ firstIncompleteIndex(flat) = 1
    /\ flat[3].completed
    /\ ~flat[4].completed
    /\ cur # Null
    /\ cur.linearIndex = 1

(* C14  An addStepBefore or addStepAfter step taken with a current step adds
   exactly one step: a new step with a fresh id, the text "New step" and
   completed = FALSE, at the current step's place in its phase (insert-before,
   the current step following it) or right after it (insert-after); the steps
   of that phase before and after the new one are as they were, in order;
   every other phase is unchanged, no phase is added or dropped, and the
   roadmap has one step more. *)
C14_InsertStep ==
    [][(lastOp'.op \in {"addStepBefore", "addStepAfter"} /\ HasFocus(phases)) =>
          LET c == current(flatten(phases))
              pi == c.phaseIndex + 1
              old == phases[pi].steps
              new == phases'[pi].steps
              pos == IF lastOp'.op = "addStepBefore"
                     THEN c.stepIndex + 1 ELSE c.stepIndex + 2
          IN  /\ Len(phases') = Len(phases)
              /\ \A q \in 1..Len(phases) : q # pi => phases'[q] = phases[q]
              /\ phases'[pi].id = phases[pi].id
              /\ phases'[pi].name = phases[pi].name
              /\ Len(new) = Len(old) + 1
              /\ Len(LinearSteps(phases')) = Len(LinearSteps(phases)) + 1
              /\ new[pos].id = lastOp'.arg
              /\ new[pos].id \notin StepIds(phases)
              /\ new[pos].text = "New step"
              /\ ~new[pos].completed
              /\ \A k \in 1..(pos - 1) : new[k] = old[k]
              /\ \A k \in pos..Len(old) : new[k + 1] = old[k]
              /\ (lastOp'.op = "addStepBefore") => new[pos + 1].id = c.stepId
              /\ (lastOp'.op = "addStepAfter") => new[pos - 1].id = c.stepId]_vars

(* addStepAfter ran and its new step stands between two older steps of a
   phase *)
C14_Witness ==
    /\ lastOp.op = "addStepAfter"
    /\ \E pi \in 1..Len(phases) :
          \E si \in 2..(Len(phases[pi].steps) - 1) :
             /\ phases[pi].steps[si].id = lastOp.arg
             /\ phases[pi].steps[si].text = "New step"
             /\ ~phases[pi].steps[si].completed

(* C15  Focus identity is preserved by an insert: after an addStepBefore or
   addStepAfter step taken with a current step, the roadmap has a current
   step and it is the step, by id, that was current before. *)
C15_FocusIdentityPreserved ==
    [][(lastOp'.op \in {"addStepBefore", "addStepAfter"} /\ HasFocus(phases)) =>
          /\ current(flatten(phases')) # Null
          /\ current(flatten(phases')).stepId
               = current(flatten(phases)).stepId]_vars

(* C16  An insert does not move the numeric focus: after an addStepBefore or
   addStepAfter step taken on a frontier state, the linear index of the first
   incomplete step is what it was before (and -1 stays -1 when there was no
   current step). *)
C16_FocusIndexUnchanged ==
    [][(lastOp'.op \in {"addStepBefore", "addStepAfter"} /\ IsFrontier(phases)) =>
          firstIncompleteIndex(flatten(phases'))
            = firstIncompleteIndex(flatten(phases))]_vars

(* addStepBefore ran on a frontier state whose current step had completed
   steps before it: the new step now stands at that linear index *)
C16_Witness ==
    /\ lastOp.op = "addStepBefore"
    /\ lastOp.frontier
    /\ firstIncompleteIndex(flat) >= 1
    /\ cur # Null
    /\ cur.stepId = lastOp.arg
    /\ flat[cur.linearIndex].completed
    /\ Len(flat) > cur.linearIndex + 1

(* the ids and names of the phases, in order *)
PhaseList(phs) == [pi \in 1..Len(phs) |-> <<phs[pi].id, phs[pi].name>>]

(* C17 as claimed  Deleting the only step moves the machine to EMPTY from any
   state: a removeCurrent step on a roadmap of one step, whether that step is
   current (HAS_FOCUS) or completed (ALL_DONE), leaves a roadmap without
   steps; and no step changes the number or order of the phases. *)
C17_DeleteOnlyStepAnyState ==
    [][/\ (lastOp'.op = "removeCurrent" /\ Len(LinearSteps(phases)) = 1) =>
             IsEmpty(phases')
       /\ PhaseList(phases') = PhaseList(phases)]_vars

(* C17 as amended  A removeCurrent step on a roadmap whose only step is the
   current one (HAS_FOCUS) leaves EMPTY: no step, no current step, allDone
   false.  On a roadmap whose only step is completed (ALL_DONE) there is no
   current step to remove and removeCurrent changes nothing.  Removing the
   last step of a phase leaves that phase in place with an empty step list,
   and no operation changes the number, order, ids or names of the phases. *)
C17_DeleteOnlyStep ==
    [][/\ (/\ lastOp'.op = "removeCurrent"
           /\ Len(LinearSteps(phases)) = 1
           /\ HasFocus(phases)) =>
             /\ IsEmpty(phases')
             /\ current(flatten(phases')) = Null
             /\ ~allDone(flatten(phases'))
       /\ (lastOp'.op = "removeCurrent" /\ IsAllDone(phases)) =>
             phases' = phases
       /\ (lastOp'.op = "removeCurrent" /\ HasFocus(phases)) =>
             LET c == current(flatten(phases))
             IN  Len(phases[c.phaseIndex + 1].steps) = 1 =>
                    phases'[c.phaseIndex + 1].steps = <<>>
       /\ PhaseList(phases') = PhaseList(phases)]_vars

(* removeCurrent removed the only step left: the three phases are still
   there, each with an empty step list *)
C17_Witness ==
    /\ lastOp.op = "removeCurrent"
    /\ IsEmpty(phases)
    /\ Len(phases) = 3
    /\ \A pi \in 1..3 : phases[pi].steps = <<>>
    /\ cur = Null
    /\ ~done

(* C18  Self-healing of a corrupted frontier: whatever the completed flags of
   a roadmap are, the first incomplete step found is the first false flag in
   linear order, and once focusStep (or the reopen button), completeCurrent
   or removeCurrent has run, the flags are a frontier: a prefix of TRUE
   followed only by FALSE. *)
C18_SelfHealing ==
    /\ HasFocus(phases) =>
          firstIncompleteIndex(flatten(phases)) = FocusOf(phases)
    /\ lastOp.op \in {"focusStep", "reopenLastStep",
                      "completeCurrent", "removeCurrent"} =>
          IsFrontier(phases)

(* completeCurrent ran on a roadmap whose flags were no frontier and left
   both completed and incomplete steps *)
C18_Witness ==
    /\ lastOp.op = "completeCurrent"
    /\ ~lastOp.frontier
    /\ Len(LinearSteps(phases)) >= 3
    /\ LinearSteps(phases)[1].completed
    /\ ~LinearSteps(phases)[Len(LinearSteps(phases))].completed

(* C19  Structural inconsistency is a clamp or a no-op.  focusStep with an
   index below 0 or above length - 1 gives what focusStep with the clamped
   index gives, and leaves a roadmap without steps unchanged; completeCurrent,
   addStepBefore, addStepAfter and removeCurrent change nothing when there is
   no current step (ALL_DONE or EMPTY); a completeCurrent whose captured
   current step was removed by a removeCurrent called from the same render
   changes nothing, the result being that of the removeCurrent alone; a drag
   end for a step id that is not in the roadmap changes nothing. *)
C19_ClampOrNoOp ==
    [][/\ lastOp'.op = "focusStep" =>
             LET n == Len(LinearSteps(phases))
             IN  IF n = 0 THEN phases' = phases
                 ELSE phases' = setFocusByLinearIndex(
                                   phases, Clamp(lastOp'.arg, 0, n - 1))
       /\ (/\ lastOp'.op \in {"completeCurrent", "addStepBefore",
                              "addStepAfter", "removeCurrent"}
           /\ ~HasFocus(phases)) =>
             (phases' = phases /\ nextId' = nextId)
       /\ (/\ lastOp'.op = "dispatchFromSameRender"
           /\ lastOp'.arg = <<"removeCurrent", "completeCurrent">>) =>
             phases' = removeCurrentUpdater(phases, current(flatten(phases)))
       /\ (/\ lastOp'.op = "handleDragEnd"
           /\ lastOp'.arg[1] \notin StepIds(phases)) =>
             phases' = phases]_vars

(* removeCurrent and completeCurrent were called from the same render on a
   roadmap with a completed step: the step after the removed one is current,
   not completed *)
C19_Witness ==
    /\ lastOp.op = "dispatchFromSameRender"
    /\ lastOp.arg = <<"removeCurrent", "completeCurrent">>
    /\ Len(flat) >= 2
    /\ flat[1].completed
    /\ cur # Null

(* C20  Zoom stays in [0.3, 2.0] (30..200 hundredths) after any sequence of
   zoom-in, zoom-out, wheel and reset operations, with drags between them,
   and no zoom, wheel or reset operation changes the roadmap, so every
   step's logical position, stored or default, is what it was. *)
C20_ZoomBounded ==
    /\ [](30 <= zoom /\ zoom <= 200)
    /\ [][lastOp'.op \in {"handleZoomIn", "handleZoomOut",
                          "handleResetZoom", "handleWheel"} =>
             /\ phases' = phases
             /\ \A id \in StepIds(phases) :
                   PlacedAt(phases', id) = PlacedAt(phases, id)]_vars

(* handleZoomOut ran with the zoom at its lower bound, on a roadmap with a
   step that a drag had given a stored position *)
C20_Witness ==
    /\ lastOp.op = "handleZoomOut"
    /\ zoom = 30
    /\ \E k \in 1..Len(LinearSteps(phases)) :
          LinearSteps(phases)[k].x # Undefined

(* sizes <<width, height>> the canvas container can have when measured; a
   container not yet laid out measures <<0, 0>> *)
Viewports == {<<0, 0>>, <<1000, 600>>, <<1600, 900>>}

RECURSIVE minOf(_, _)
minOf(fl, field) ==
    IF Len(fl) = 1 THEN fl[1][field]
    ELSE Min(fl[1][field], minOf(Tail(fl), field))

(* twice the centre of the bounding box of the steps' positions *)
ContentCentreTwice(phs) ==
    LET fl == flattenCanvas(phs)
    IN  <<minOf(fl, "x") + maxOf(fl, "x"), minOf(fl, "y") + maxOf(fl, "y")>>

(* under `scale(zoom) translate(pan)` the point p is drawn at zoom * (p + pan);
   the content centre is drawn at the centre of the viewport vp *)
CentredIn(phs, z, pn, vp) ==
    /\ z * (ContentCentreTwice(phs)[1] + 2 * pn[1]) = 100 * vp[1]
    /\ z * (ContentCentreTwice(phs)[2] + 2 * pn[2]) = 100 * vp[2]

(* C21  Auto-centring: a reset of the view leaves the pan at the value that
   draws the centre of the content's bounding box at the centre of the
   viewport, whatever size the viewport has and wherever the steps have been
   dragged; with a viewport of size zero it leaves the pan as it was. *)
C21_AutoCentring ==
    [][lastOp'.op = "handleResetZoom" =>
          \A vp \in Viewports :
             IF vp = <<0, 0>> THEN pan' = pan
             ELSE Len(LinearSteps(phases')) > 0 =>
                     CentredIn(phases', zoom', pan', vp)]_vars

(* C22  The pan is always a pair of finite numbers: it is <<0, 0>> at the
   start, no handler computes a pan, and handleResetZoom stores the literal
   <<0, 0>>, also on a roadmap without steps; so after any sequence of zoom,
   wheel, reset, drag and remove operations both components are 0. *)
C22_PanFinite == pan = <<0, 0>>

(* handleResetZoom ran on a roadmap that has no step left *)
C22_Witness ==
    /\ lastOp.op = "handleResetZoom"
    /\ IsEmpty(phases)
    /\ pan[1] \in Int
    /\ pan[2] \in Int

(* C23  The canvas is never smaller than the floor 1200 x 800 and is the
   floor for a roadmap without steps, and every step's footprint (the card
   is 320 wide, drawn with its top-left corner at left = x, top = y) lies
   inside the canvas at a non-negative render coordinate, also after drags
   to negative logical coordinates. *)
C23_CanvasContainsSteps ==
    LET fc == flattenCanvas(phases)
        bounds == canvasBounds(fc)
    IN  /\ bounds.width >= 1200
        /\ bounds.height >= 800
        /\ Len(fc) = 0 => bounds = [width |-> 1200, height |-> 800]
        /\ \A k \in 1..Len(fc) :
              /\ fc[k].x >= 0
              /\ fc[k].y >= 0
              /\ fc[k].x + 320 <= bounds.width
              /\ fc[k].y <= bounds.height

(* the step ids of every phase, in order *)
IdLists(phs) ==
    [pi \in 1..Len(phs) |->
       [si \in 1..Len(phs[pi].steps) |-> phs[pi].steps[si].id]]

(* the id lists restricted to the ids in keep *)
IdListsWithin(phs, keep) ==
    [pi \in 1..Len(phs) |->
       SelectSeq(IdLists(phs)[pi], LAMBDA id : id \in keep)]

(* C24  Step ids are stable and unique.  No two steps of the roadmap share
   an id, and every id in it has been handed out by uid() before.  focusStep,
   reopen, completeCurrent, setStepText and a drag end leave every phase's
   list of ids as it was; moveStep leaves every phase with the ids it had;
   removeCurrent drops ids and leaves the rest in order; addStepBefore and
   addStepAfter add one id, which no step has and none had before (uid()
   handing out fresh values), and leave the rest in order. *)
C24_StableUniqueIds ==
    /\ [](/\ Cardinality(StepIds(phases)) = Len(LinearSteps(phases))
          /\ \A id \in StepIds(phases) : id < nextId)
    /\ [][LET op == lastOp'.op
              old == StepIds(phases)
              new == StepIds(phases')
          IN  /\ op \in {"focusStep", "reopenLastStep", "completeCurrent",
                         "setStepText", "handleDragEnd"} =>
                    IdLists(phases') = IdLists(phases)
              /\ op = "moveStep" =>
                    /\ new = old
                    /\ \A pi \in 1..Len(phases) :
                          /\ Len(phases'[pi].steps) = Len(phases[pi].steps)
                          /\ {phases'[pi].steps[si].id :
                                 si \in 1..Len(phases'[pi].steps)}
                               = {phases[pi].steps[si].id :
                                     si \in 1..Len(phases[pi].steps)}
              /\ op = "removeCurrent" =>
                    /\ new \subseteq old
                    /\ IdLists(phases') = IdListsWithin(phases, new)
              /\ op \in {"addStepBefore", "addStepAfter"} =>
                    /\ old \subseteq new
                    /\ Cardinality(new \ old) <= 1
                    /\ \A id \in new \ old : id >= nextId
                    /\ HasFocus(phases) => Cardinality(new \ old) = 1
                    /\ IdListsWithin(phases', old) = IdLists(phases)]_vars

(* moveStep swapped two steps of a roadmap that holds an inserted step, an
   edited step and a dragged step *)
C24_Witness ==
    /\ lastOp.op = "moveStep"
    /\ nextId > 7
    /\ Len(phases[1].steps) >= 2
    /\ phases[1].steps[1].id > phases[1].steps[2].id
    /\ \E k \in 1..Len(LinearSteps(phases)) : LinearSteps(phases)[k].text = "Draft"
    /\ \E k \in 1..Len(LinearSteps(phases)) : LinearSteps(phases)[k].x # Undefined
    /\ \E k \in 1..Len(LinearSteps(phases)) : LinearSteps(phases)[k].id >= 7

(* thoughtsByStep: the thoughts that have a stepId, grouped by it *)
thoughtsByStep(ths) ==
    [stepId \in {ths[k].stepId[1] :
                    k \in {j \in 1..Len(ths) : ths[j].stepId # Undefined}} |->
       SelectSeq(ths, LAMBDA t : t.stepId = <<stepId>>)]

(* thoughtsByStep.get(step.stepId) || [] *)
linkedThoughts(ths, stepId) ==
    IF stepId \in DOMAIN thoughtsByStep(ths)
    THEN thoughtsByStep(ths)[stepId] ELSE <<>>

(* the thoughts whose stepId names no step of the roadmap *)
Dangling(ths, phs) ==
    {k \in 1..Len(ths) :
        ths[k].stepId # Undefined /\ ths[k].stepId[1] \notin StepIds(phs)}

(* C25  Step deletion is not cascaded to the thoughts: removeCurrent leaves
   every thought, its stepId included, as it was, so a thought linked to the
   removed step keeps the id of a step that no longer exists (until
   updateThought changes it), and no step of the canvas shows a thought
   whose stepId names no step. *)
C25_DeletionNotCascaded ==
    /\ [][lastOp'.op = "removeCurrent" =>
             /\ thoughts' = thoughts
             /\ \A k \in 1..Len(thoughts) :
                   (/\ thoughts[k].stepId # Undefined
                    /\ thoughts[k].stepId[1] \in StepIds(phases) \ StepIds(phases'))
                   => k \in Dangling(thoughts', phases')]_vars
    /\ [](\A k \in Dangling(thoughts, phases) :
             \A j \in 1..Len(flattenCanvas(phases)) :
                \A i \in 1..Len(linkedThoughts(thoughts, flattenCanvas(phases)[j].stepId)) :
                   linkedThoughts(thoughts, flattenCanvas(phases)[j].stepId)[i].id
                      # thoughts[k].id)

(* removeCurrent removed a step that a thought was linked to, with other
   steps left on the canvas *)
C25_Witness ==
    /\ lastOp.op = "removeCurrent"
    /\ Dangling(thoughts, phases) # {}
    /\ Len(flattenCanvas(phases)) > 0
    /\ \E k \in 1..Len(thoughts) : k \notin Dangling(thoughts, phases)
                                   /\ thoughts[k].stepId # Undefined

(* C26  In-progress interactions commit atomically: a step of an
   interaction in progress, that is, a move of the pointer during a drag, or
   a change of the text input's value while the input stays open, leaves the
   committed roadmap as it was; the position or text is written with the
   step that ends the interaction, the release or the blur. *)
C26_AtomicCommit ==
    [][(\/ lastOp'.op = "onDragMove"
        \/ isEditing /\ isEditing' /\ lastOp'.op = "setStepText")
       => phases' = phases]_vars

(* the storage st holds a roadmap with steps in it: under the new key, in the
   active project; or, where the legacy keys are migrated, as the phases of
   the legacy project or as a flat array in its place *)
HoldsRoadmap(st) ==
    IF st.projects # Null
    THEN /\ st.projects.kind = "array"
         /\ st.activeProjectId = <<0>>
         /\ Len(st.projects.value[1].phases) > 0
    ELSE /\ st.legacyProject # Null
         /\ IF st.legacyProject.kind = "array" THEN TRUE
            ELSE IF st.legacyProject.kind = "object"
                 THEN IF "phases" \in DOMAIN st.legacyProject.value
                      THEN Len(st.legacyProject.value.phases) > 0
                      ELSE FALSE
            ELSE FALSE

(* C27  Persisted-shape compatibility: when the page has loaded a storage
   that holds a roadmap, be it phases whose steps lack x and y or a flat
   array of steps, the Roadmap is rendered, on phases that each have an id, a
   name and steps, and the canvas gives every step a position, the default
   one where none was stored. *)
C27_OlderShapesAccepted ==
    (lastOp.op = "loadFromStorage" /\ HoldsRoadmap(lastOp.arg.from)) =>
       /\ lastOp.arg.rendered = "roadmap"
       /\ \A pi \in 1..Len(phases) : DOMAIN phases[pi] = {"id", "name", "steps"}
       /\ Len(flattenCanvas(phases)) > 0
       /\ \A k \in 1..Len(flattenCanvas(phases)) :
             /\ flattenCanvas(phases)[k].x \in Int
             /\ flattenCanvas(phases)[k].y \in Int
             /\ LinearSteps(phases)[k].x = Undefined =>
                    flattenCanvas(phases)[k].x = 400

(* the stored string raw is there and is text that is no JSON, or the JSON
   null *)
Unparsable(raw) ==
    IF raw = Null THEN FALSE ELSE raw.kind \in {"malformed", "null"}

(* the stored string raw is there and is no JSON array *)
NoArray(raw) ==
    IF raw = Null THEN FALSE ELSE raw.kind # "array"

(* C29  Malformed stored data is treated as no data: loadFromStorage, with
   the migration it may run, returns for every stored state; a collection
   whose stored string is no JSON or the JSON null, and the thoughts when the
   legacy notes are no array, is returned as the empty array; and a
   collection whose stored string is as it should be is returned whatever
   the other strings are. *)
C29_MalformedIsNoData ==
    lastOp.op = "loadFromStorage" =>
       LET st == lastOp.arg.from
           result == lastOp.arg.result
       IN  IF needsMigration(st)
           THEN /\ Unparsable(st.legacyProject) =>
                      result.projects = JsonArray(<<>>)
                /\ NoArray(st.legacyNotes) => result.thoughts = JsonArray(<<>>)
                /\ (st.legacyNotes # Null /\ ~NoArray(st.legacyNotes)) =>
                      Len(result.thoughts.value) = Len(st.legacyNotes.value)
                /\ (st.legacyProject # Null /\ HoldsRoadmap(st)
                       /\ st.legacyProject.kind = "object") =>
                      result.projects.value[1].phases
                         = st.legacyProject.value.phases
           ELSE /\ Unparsable(st.projects) => result.projects = JsonArray(<<>>)
                /\ Unparsable(st.thoughts) => result.thoughts = JsonArray(<<>>)
                /\ (st.thoughts # Null /\ ~NoArray(st.thoughts)) =>
                      result.thoughts = st.thoughts
                /\ (st.projects # Null /\ ~NoArray(st.projects)) =>
                      result.projects = st.projects

(* C28  Default positions: the canvas flattener gives every step an integer
   x and y; a step with a stored position has that position, and a step
   without one has x = 400 and y = 100 + 150 * its linear index, whatever the
   flags, the texts and the positions of the other steps are. *)
C28_DefaultPosition ==
    /\ Len(flattenCanvas(phases)) = Len(LinearSteps(phases))
    /\ \A k \in 1..Len(LinearSteps(phases)) :
          LET s == LinearSteps(phases)[k]
              r == flattenCanvas(phases)[k]
          IN  /\ r.stepId = s.id
              /\ r.x \in Int /\ r.y \in Int
              /\ r.x = (IF s.x = Undefined THEN 400 ELSE s.x[1])
              /\ r.y = (IF s.y = Undefined THEN 100 + 150 * (k - 1) ELSE s.y[1])

(* after a drag and a removal: a step with a stored position, followed by a
   step without one, which removing the step before them moved up to the
   linear index 1 *)
C28_Witness ==
    /\ Len(LinearSteps(phases)) = 2
    /\ drags = 1
    /\ LinearSteps(phases)[1].x # Undefined
    /\ LinearSteps(phases)[2].y = Undefined
    /\ StepIds(phases) = {3, 4}
    /\ flattenCanvas(phases)[2].y = 250

(* C30  Drag end changes only the dragged step's position: after
   handleDragEnd for the step with the id stepId and the pointer delta
   (dx, dy), that step is stored at (x + dx, y + dy), (x, y) being where the
   canvas had it, stored or default; every other step is as it was, stored
   and on the canvas; the dragged step keeps its id, text and completed flag;
   and the phases, and the steps in each, are in the order they were.  A drag
   end for an id no step has changes nothing. *)
C30_DragEndFrame ==
    [][lastOp'.op = "handleDragEnd" =>
         LET stepId == lastOp'.arg[1]
             delta == lastOp'.arg[2]
             before == flattenCanvas(phases)
             after == flattenCanvas(phases')
         IN  /\ Len(phases') = Len(phases)
             /\ \A pi \in 1..Len(phases) :
                   /\ phases'[pi].id = phases[pi].id
                   /\ phases'[pi].name = phases[pi].name
                   /\ Len(phases'[pi].steps) = Len(phases[pi].steps)
             /\ Len(after) = Len(before)
             /\ \A k \in 1..Len(before) :
                   IF before[k].stepId = stepId
                   THEN /\ after[k] = [before[k] EXCEPT
                                          !.x = before[k].x + delta[1],
                                          !.y = before[k].y + delta[2]]
                        /\ LinearSteps(phases')[k] =
                              [LinearSteps(phases)[k] EXCEPT
                                  !.x = <<before[k].x + delta[1]>>,
                                  !.y = <<before[k].y + delta[2]>>]
                   ELSE /\ after[k] = before[k]
                        /\ LinearSteps(phases')[k] = LinearSteps(phases)[k]
             /\ stepId \notin StepIds(phases) => phases' = phases]_vars

(* the first step of a phase of two was dragged from its default position *)
C30_Witness ==
    /\ lastOp.op = "handleDragEnd"
    /\ lastOp.arg[1] = 3
    /\ StepIds(phases) = {3, 4}
    /\ LinearSteps(phases)[1].x = <<400 + lastOp.arg[2][1]>>
    /\ LinearSteps(phases)[1].y = <<100 + lastOp.arg[2][2]>>
    /\ LinearSteps(phases)[2].x = Undefined

(* C31  focusStep and completeCurrent change completed flags only: across a
   focusStep, reopen or completeCurrent step the roadmap with every flag
   cleared is the same, that is, the list of phases, each phase's id and
   name, the order of its steps, and every step's id, text and stored
   position are as they were. *)
C31_FlagsOnly ==
    [][lastOp'.op \in {"focusStep", "reopenLastStep", "completeCurrent"} =>
          ClearFlags(phases') = ClearFlags(phases)]_vars

(* completeCurrent changed a flag of a roadmap that holds a dragged step and
   an edited step *)
C31_Witness ==
    /\ lastOp.op = "completeCurrent"
    /\ \E k \in 1..Len(LinearSteps(phases)) : LinearSteps(phases)[k].completed
    /\ \E k \in 1..Len(LinearSteps(phases)) : LinearSteps(phases)[k].x # Undefined
    /\ \E k \in 1..Len(LinearSteps(phases)) : LinearSteps(phases)[k].text = "Draft"

(* C32  focusStep never produces ALL_DONE: after focusStep(I), or the reopen
   button, on a roadmap with steps the machine is in HAS_FOCUS and the
   current step is the one at the linear index clamp(I, 0, length - 1); and a
   step that takes the machine into ALL_DONE from another state is a
   completeCurrent or a removeCurrent. *)
C32_FocusNeverAllDone ==
    /\ []((lastOp.op \in {"focusStep", "reopenLastStep"} /\ ~IsEmpty(phases)) =>
             /\ HasFocus(phases)
             /\ ~IsAllDone(phases)
             /\ FocusOf(phases) =
                   Clamp(lastOp.arg, 0, Len(LinearSteps(phases)) - 1)
             /\ current(flatten(phases)) # Null
             /\ current(flatten(phases)).linearIndex = FocusOf(phases))
    /\ [][(~IsAllDone(phases) /\ IsAllDone(phases')) =>
             lastOp'.op \in {"completeCurrent", "removeCurrent"}]_vars

(* focusStep with an index past the end ran on a roadmap whose steps were all
   completed or not: the last step is the current one *)
C32_Witness ==
    /\ lastOp.op = "focusStep"
    /\ Len(LinearSteps(phases)) >= 2
    /\ lastOp.arg > Len(LinearSteps(phases)) - 1
    /\ FocusOf(phases) = Len(LinearSteps(phases)) - 1

(* C33  Two completeCurrent calls, or two removeCurrent calls, made from the
   same render have the effect of one.  Both captured the same current step,
   and their updaters run one after the other on the latest state: the result
   is what a single call gives; after two completions the steps up to the
   captured one are completed and the current step, if there is one, is the
   next; after two removals the roadmap has lost the captured step and no
   other. *)
C33_SameRenderTwice ==
    [][(/\ lastOp'.op = "dispatchFromSameRender"
        /\ lastOp'.arg[1] = lastOp'.arg[2]) =>
          LET c == current(flatten(phases))
              n == Len(LinearSteps(phases))
          IN  /\ phases' = updaterOf(lastOp'.arg[1], phases, c)
              /\ lastOp'.arg[1] = "completeCurrent" =>
                    /\ IdLists(phases') = IdLists(phases)
                    /\ IF c.linearIndex = n - 1 THEN IsAllDone(phases')
                       ELSE /\ HasFocus(phases')
                            /\ FocusOf(phases') = c.linearIndex + 1
              /\ lastOp'.arg[1] = "removeCurrent" =>
                    /\ Len(LinearSteps(phases')) = n - 1
                    /\ StepIds(phases') = StepIds(phases) \ {c.stepId}]_vars

(* completeCurrent was called twice from the render that showed the first of
   three steps: the second step is the current one *)
C33_Witness ==
    /\ lastOp.op = "dispatchFromSameRender"
    /\ lastOp.arg = <<"completeCurrent", "completeCurrent">>
    /\ Len(LinearSteps(phases)) >= 3
    /\ HasFocus(phases)
    /\ FocusOf(phases) = 1

(* the 1-based position of the phase with the id activeId *)
PhaseOf(phs, activeId) == CHOOSE pi \in 1..Len(phs) : phs[pi].id = activeId

(* what a moveStep step does to the roadmap, but for the up-then-down law: the
   other phases are as they were; at a boundary of the phase nothing
   changes; otherwise the phase keeps its id and name and has the steps at
   index and at its neighbour exchanged, every other step staying where it
   was, so the phase has the steps and ids it had *)
MoveStepSwaps ==
    lastOp'.op = "moveStep" =>
       LET activeId == lastOp'.arg[1]
           index == lastOp'.arg[2]
           direction == lastOp'.arg[3]
           pi == PhaseOf(phases, activeId)
           steps == phases[pi].steps
           target == IF direction = "up" THEN index - 1 ELSE index + 1
       IN  /\ Len(phases') = Len(phases)
           /\ \A pj \in 1..Len(phases) : pj # pi => phases'[pj] = phases[pj]
           /\ phases'[pi].id = phases[pi].id
           /\ phases'[pi].name = phases[pi].name
           /\ Len(phases'[pi].steps) = Len(steps)
           /\ IF target < 0 \/ target >= Len(steps)
              THEN phases' = phases
              ELSE /\ phases'[pi].steps[index + 1] = steps[target + 1]
                   /\ phases'[pi].steps[target + 1] = steps[index + 1]
                   /\ \A si \in 1..Len(steps) :
                         si \notin {index + 1, target + 1} =>
                            phases'[pi].steps[si] = steps[si]
           /\ {phases'[pi].steps[si] : si \in 1..Len(steps)}
                 = {steps[si] : si \in 1..Len(steps)}

(* C34 as claimed  moveStep swaps the step at the index with its neighbour, is
   a no-op at the phase boundaries, keeps the steps and ids of the phase and
   moves no step to another phase; and after moving a step up, moving the
   step at the index it is then at down gives back the roadmap as it was,
   for every index of the phase. *)
C34_MoveUpThenDownAnyIndex ==
    [][/\ MoveStepSwaps
       /\ (lastOp'.op = "moveStep" /\ lastOp'.arg[3] = "up") =>
             moveStepUpdater(phases', lastOp'.arg[1],
                             IF lastOp'.arg[2] = 0 THEN 0
                             ELSE lastOp'.arg[2] - 1,
                             "down") = phases]_vars

(* C34  moveStep swaps the step at the index with its neighbour, is a no-op
   at the phase boundaries, keeps the steps and ids of the phase and moves no
   step to another phase.  After a move up that moved the step (index >= 1),
   moving the step at index - 1 down gives back the roadmap as it was, and
   likewise a move down that moved the step is undone by a move up at
   index + 1; after a move up at index 0, which changed nothing, moving the
   step at index 0 down exchanges it with the second step of the phase. *)
C34_MoveStep ==
    [][/\ MoveStepSwaps
       /\ (lastOp'.op = "moveStep" /\ lastOp'.arg[3] = "up"
              /\ lastOp'.arg[2] >= 1) =>
             moveStepUpdater(phases', lastOp'.arg[1],
                             lastOp'.arg[2] - 1, "down") = phases
       /\ (lastOp'.op = "moveStep" /\ lastOp'.arg[3] = "down"
              /\ phases' # phases) =>
             moveStepUpdater(phases', lastOp'.arg[1],
                             lastOp'.arg[2] + 1, "up") = phases
       /\ (lastOp'.op = "moveStep" /\ lastOp'.arg[3] = "up"
              /\ lastOp'.arg[2] = 0
              /\ Len(phases[PhaseOf(phases, lastOp'.arg[1])].steps) >= 2) =>
             /\ phases' = phases
             /\ moveStepUpdater(phases', lastOp'.arg[1], 0, "down")
                   = moveStepUpdater(phases, lastOp'.arg[1], 1, "up")
             /\ moveStepUpdater(phases', lastOp'.arg[1], 0, "down") # phases]_vars

(* the last of three steps of a phase was moved up: it is the second now *)
C34_Witness ==
    /\ lastOp.op = "moveStep"
    /\ lastOp.arg = <<"p2", 2, "up">>
    /\ Len(phases[2].steps) = 3
    /\ phases[2].steps[2].id >= 7
    /\ phases[2].steps[3].id < 7

(* the thought with the id th is in ths, has a truthy scheduledAt, is not
   dismissed, and the time t is within [scheduledAt, scheduledAt + 60 s) *)
InWindow(ths, id, t) ==
    \E k \in 1..Len(ths) :
        /\ ths[k].id = id
        /\ ths[k].scheduledAt # Undefined
        /\ ths[k].scheduledAt # <<0>>
        /\ ths[k].reminderDismissed # <<TRUE>>
        /\ IF ths[k].scheduledAt = Undefined THEN FALSE
           ELSE (t - ths[k].scheduledAt[1]) \in 0..(Window - 1)

(* C35  The reminder poller shows a notification for a thought only when the
   thought, as the check reads it, has a scheduledAt, is not reminderDismissed
   and the time of the check is within [scheduledAt, scheduledAt + 60 s); and
   no thought is notified twice while it stays in the list (a deleted thought
   never comes back), whatever the interleaving of polls, reschedules,
   dismissals and deletions. *)
C35_NotifiedOnceWhenDue ==
    [][\A k \in (Len(shown) + 1)..Len(shown') :
          /\ shown'[k].at = now'
          /\ InWindow(thoughts', shown'[k].id, now')
          /\ \A j \in 1..(k - 1) : shown'[j].id # shown'[k].id]_vars

(* a poll found a thought due that was notified before, and showed nothing
   for it again *)
C35_Witness ==
    /\ lastOp.op = "checkNotifications"
    /\ shown # <<>>
    /\ \E k \in 1..Len(shown) :
          /\ shown[k].at < now
          /\ InWindow(thoughts, shown[k].id, now)

(* C36  Rescheduling re-arms a reminder: whenever a poll runs with the
   permission granted while a thought has a scheduledAt, reminderDismissed
   false, and the time within 60 s after scheduledAt, also a thought that was
   notified or dismissed before and scheduled again, a notification for that
   schedule has been shown by the end of the poll. *)
C36_RescheduleRearms ==
    [][(lastOp'.op = "checkNotifications" /\ permission = "granted") =>
          \A k \in 1..Len(thoughts) :
              InWindow(thoughts, thoughts[k].id, now) =>
                  \E j \in 1..Len(shown') :
                      /\ shown'[j].id = thoughts[k].id
                      /\ (shown'[j].at - thoughts[k].scheduledAt[1])
                            \in 0..(Window - 1)]_vars

(* C37  A thought is linked to at most one step at any time: it is listed
   under at most one step of thoughtsByStep.  A toggle of a thought in the
   selector of a step clears the stepId when the thought was linked to that
   step and sets it to that step otherwise, moving the link, and changes no
   other thought, no other field of the thought, and no step. *)
C37_OneLinkPerThought ==
    /\ [](\A s1, s2 \in DOMAIN thoughtsByStep(thoughts) :
            \A i \in 1..Len(thoughtsByStep(thoughts)[s1]) :
              \A j \in 1..Len(thoughtsByStep(thoughts)[s2]) :
                 thoughtsByStep(thoughts)[s1][i].id =
                     thoughtsByStep(thoughts)[s2][j].id => s1 = s2)
    /\ [][lastOp'.op = "handleThoughtToggle" =>
            /\ phases' = phases
            /\ Len(thoughts') = Len(thoughts)
            /\ \A t \in 1..Len(thoughts) :
                 IF thoughts[t].id # lastOp'.arg[1]
                 THEN thoughts'[t] = thoughts[t]
                 ELSE /\ thoughts'[t] =
                            [thoughts[t] EXCEPT !.stepId = thoughts'[t].stepId]
                      /\ \E k \in 1..Len(flat) :
                           IF thoughts[t].stepId = <<flat[k].stepId>>
                           THEN thoughts'[t].stepId = Undefined
                           ELSE thoughts'[t].stepId = <<flat[k].stepId>>]_vars

(* a toggle moved the link of thought 1 from its step to another while
   thought 2 is linked too *)
C37_Witness ==
    /\ lastOp.op = "handleThoughtToggle"
    /\ lastOp.arg[1] = 1
    /\ thoughts[1].stepId \notin {Undefined, <<1>>}
    /\ thoughts[2].stepId # Undefined

====
